---------------------------- MODULE Spec2Model ----------------------------
(***************************************************************************)
(* Model of the rule engine of the NovaHealth serving backend              *)
(* (src/backend/fastapi_server.py) and of its model-cache singletons       *)
(* (src/backend/lightweight_models.py).                                    *)
(*                                                                         *)
(* Python strings that the code inspects character by character (symptom   *)
(* types, keyword phrases) are sequences of one-character strings, so that *)
(* lower(), strip() and the `in` substring test are computed, not assumed. *)
(* A Python dict that may lack a key is a function whose DOMAIN is the set *)
(* of keys present; dict.get(k, d) is Get(d, k, default).                  *)
(***************************************************************************)
EXTENDS Integers, Sequences, FiniteSets, TLC

(***************************************************************************)
(* String helpers                                                          *)
(***************************************************************************)
UpperLetters ==
  <<"A","B","C","D","E","F","G","H","I","J","K","L","M",
    "N","O","P","Q","R","S","T","U","V","W","X","Y","Z">>

LowerLetters ==
  <<"a","b","c","d","e","f","g","h","i","j","k","l","m",
    "n","o","p","q","r","s","t","u","v","w","x","y","z">>

Whitespace == {" ", "\t", "\n"}

\* str.lower() on one character
LowerChar(c) ==
  IF \E k \in 1..Len(UpperLetters) : UpperLetters[k] = c
  THEN LowerLetters[CHOOSE k \in 1..Len(UpperLetters) : UpperLetters[k] = c]
  ELSE c

\* str.lower()
Lower(s) == [k \in 1..Len(s) |-> LowerChar(s[k])]

\* str.strip(): drop leading and trailing whitespace
Strip(s) ==
  LET keep == {k \in 1..Len(s) : s[k] \notin Whitespace}
  IN  IF keep = {} THEN <<>>
      ELSE LET lo == CHOOSE k \in keep : \A j \in keep : k <= j
               hi == CHOOSE k \in keep : \A j \in keep : j <= k
           IN  SubSeq(s, lo, hi)

\* Python `p in s` on strings: p occurs in s as a contiguous substring
\* (the empty string occurs in every string)
Contains(s, p) ==
  \E k \in 0..(Len(s) - Len(p)) : SubSeq(s, k + 1, k + Len(p)) = p

\* dict.get(key, default)
Get(d, key, default) == IF key \in DOMAIN d THEN d[key] ELSE default

\* Python None as the value dict.get(key) gives for an absent key; no Python
\* string equals it (strings are sequences of one-character strings)
NoneStr == <<"None">>

\* Python None as a function's return value in place of a dict
None == [None |-> TRUE]

\* truthiness of a value that is None or a string
Truthy(v) == v # NoneStr /\ v # <<>>

\* Python `a or b` on such values
Or(a, b) == IF Truthy(a) THEN a ELSE b

(***************************************************************************)
(* analyze_symptom_risks: the keyword table, in declaration order          *)
(***************************************************************************)
symptom_patterns ==
  <<
    [condition |-> "Cardiovascular", patterns |-> <<
       <<"c","h","e","s","t"," ","p","a","i","n">>,  \* chest pain
       <<"s","h","o","r","t","n","e","s","s"," ","o","f"," ","b","r","e","a","t","h">>,  \* shortness of breath
       <<"i","r","r","e","g","u","l","a","r"," ","h","e","a","r","t","b","e","a","t">>,  \* irregular heartbeat
       <<"p","a","l","p","i","t","a","t","i","o","n","s">>,  \* palpitations
       <<"d","i","z","z","i","n","e","s","s">>,  \* dizziness
       <<"f","a","i","n","t","i","n","g">>  \* fainting
     >>],
    [condition |-> "Respiratory", patterns |-> <<
       <<"c","o","u","g","h">>,  \* cough
       <<"s","h","o","r","t","n","e","s","s"," ","o","f"," ","b","r","e","a","t","h">>,  \* shortness of breath
       <<"w","h","e","e","z","i","n","g">>,  \* wheezing
       <<"c","h","e","s","t"," ","t","i","g","h","t","n","e","s","s">>,  \* chest tightness
       <<"d","i","f","f","i","c","u","l","t","y"," ","b","r","e","a","t","h","i","n","g">>  \* difficulty breathing
     >>],
    [condition |-> "Gastrointestinal", patterns |-> <<
       <<"n","a","u","s","e","a">>,  \* nausea
       <<"v","o","m","i","t","i","n","g">>,  \* vomiting
       <<"d","i","a","r","r","h","e","a">>,  \* diarrhea
       <<"a","b","d","o","m","i","n","a","l"," ","p","a","i","n">>,  \* abdominal pain
       <<"b","l","o","a","t","i","n","g">>,  \* bloating
       <<"c","o","n","s","t","i","p","a","t","i","o","n">>,  \* constipation
       <<"h","e","a","r","t","b","u","r","n">>  \* heartburn
     >>],
    [condition |-> "Neurological", patterns |-> <<
       <<"h","e","a","d","a","c","h","e">>,  \* headache
       <<"m","i","g","r","a","i","n","e">>,  \* migraine
       <<"d","i","z","z","i","n","e","s","s">>,  \* dizziness
       <<"n","u","m","b","n","e","s","s">>,  \* numbness
       <<"t","i","n","g","l","i","n","g">>,  \* tingling
       <<"c","o","n","f","u","s","i","o","n">>,  \* confusion
       <<"m","e","m","o","r","y"," ","l","o","s","s">>  \* memory loss
     >>],
    [condition |-> "Musculoskeletal", patterns |-> <<
       <<"j","o","i","n","t"," ","p","a","i","n">>,  \* joint pain
       <<"m","u","s","c","l","e"," ","p","a","i","n">>,  \* muscle pain
       <<"b","a","c","k"," ","p","a","i","n">>,  \* back pain
       <<"s","t","i","f","f","n","e","s","s">>,  \* stiffness
       <<"s","w","e","l","l","i","n","g">>  \* swelling
     >>],
    [condition |-> "Endocrine/Metabolic", patterns |-> <<
       <<"f","a","t","i","g","u","e">>,  \* fatigue
       <<"w","e","i","g","h","t"," ","c","h","a","n","g","e","s">>,  \* weight changes
       <<"e","x","c","e","s","s","i","v","e"," ","t","h","i","r","s","t">>,  \* excessive thirst
       <<"f","r","e","q","u","e","n","t"," ","u","r","i","n","a","t","i","o","n">>,  \* frequent urination
       <<"h","o","t"," ","f","l","a","s","h","e","s">>,  \* hot flashes
       <<"c","o","l","d"," ","i","n","t","o","l","e","r","a","n","c","e">>  \* cold intolerance
     >>],
    [condition |-> "Mental Health", patterns |-> <<
       <<"a","n","x","i","e","t","y">>,  \* anxiety
       <<"d","e","p","r","e","s","s","i","o","n">>,  \* depression
       <<"m","o","o","d"," ","s","w","i","n","g","s">>,  \* mood swings
       <<"i","n","s","o","m","n","i","a">>,  \* insomnia
       <<"s","t","r","e","s","s">>,  \* stress
       <<"p","a","n","i","c"," ","a","t","t","a","c","k","s">>  \* panic attacks
     >>],
    [condition |-> "Gynecological", patterns |-> <<
       <<"i","r","r","e","g","u","l","a","r"," ","p","e","r","i","o","d","s">>,  \* irregular periods
       <<"h","e","a","v","y"," ","b","l","e","e","d","i","n","g">>,  \* heavy bleeding
       <<"p","e","l","v","i","c"," ","p","a","i","n">>,  \* pelvic pain
       <<"c","r","a","m","p","s">>,  \* cramps
       <<"s","p","o","t","t","i","n","g">>  \* spotting
     >>],
    [condition |-> "Dermatological", patterns |-> <<
       <<"r","a","s","h">>,  \* rash
       <<"i","t","c","h","i","n","g">>,  \* itching
       <<"s","k","i","n"," ","c","h","a","n","g","e","s">>,  \* skin changes
       <<"h","i","v","e","s">>,  \* hives
       <<"a","c","n","e">>  \* acne
     >>],
    [condition |-> "General/Systemic", patterns |-> <<
       <<"f","e","v","e","r">>,  \* fever
       <<"c","h","i","l","l","s">>,  \* chills
       <<"n","i","g","h","t"," ","s","w","e","a","t","s">>,  \* night sweats
       <<"f","a","t","i","g","u","e">>,  \* fatigue
       <<"w","e","a","k","n","e","s","s">>,  \* weakness
       <<"l","o","s","s"," ","o","f"," ","a","p","p","e","t","i","t","e">>  \* loss of appetite
     >>]
  >>


NumConditions == Len(symptom_patterns)

\* condition_scores.keys(), in insertion order
ConditionNames == [c \in 1..NumConditions |-> symptom_patterns[c].condition]

Conditions == {ConditionNames[c] : c \in 1..NumConditions}

ChestPain == <<"c","h","e","s","t"," ","p","a","i","n">>

Unknown == <<"U","n","k","n","o","w","n">>

GeneralSentinel == "General symptoms - requires medical evaluation"

\* a variant that consults symptomType before type
SymptomTypeRaw_AliasFirst(symptom) ==
  Or(Get(symptom, "symptomType", NoneStr),
     Or(Get(symptom, "type", NoneStr),
        Get(symptom, "symptom_type", <<>>)))

\* line 426: symptom.get('type') or symptom.get('symptomType') or symptom.get('symptom_type', '')
SymptomTypeRaw(symptom) ==
  Or(Get(symptom, "type", NoneStr),
     Or(Get(symptom, "symptomType", NoneStr),
        Get(symptom, "symptom_type", <<>>)))

\* line 427: str(symptom_type_raw).lower().strip()
SymptomType(symptom) == Strip(Lower(SymptomTypeRaw(symptom)))

\* line 428: int(symptom.get('severity', 0))
Severity(symptom) == Get(symptom, "severity", 0)

\* a variant that matches in one direction only
PatternMatches_OneWay(stype, pattern) ==
  stype # <<>> /\ Contains(stype, pattern)

\* line 446: symptom_type and (pattern in symptom_type or symptom_type in pattern)
PatternMatches(stype, pattern) ==
  /\ stype # <<>>
  /\ \/ Contains(stype, pattern)
     \/ Contains(pattern, stype)

\* lines 444-450: some pattern of the condition's list matches
ConditionMatches(stype, c) ==
  \E p \in 1..Len(symptom_patterns[c].patterns) :
      PatternMatches(stype, symptom_patterns[c].patterns[p])

\* lines 442-452: index of the first condition, in table order, with a matching
\* pattern; 0 when the loops end with matched = False
MatchedCondition(stype) ==
  LET hits == {c \in 1..NumConditions : ConditionMatches(stype, c)}
  IN  IF hits = {} THEN 0
      ELSE CHOOSE c \in hits : \A d \in hits : c <= d

(***************************************************************************)
(* Requests: the symptom entries a request's lifestyleData.symptoms list   *)
(* is drawn from.  A key that an entry does not carry is absent from its   *)
(* domain, as in the JSON body.                                            *)
(***************************************************************************)
SymptomEntries ==
  << \* ' Cough' under `type`, another value under `symptom_type`
     [type |-> <<" ","C","o","u","g","h">>, symptom_type |-> <<"r","a","s","h">>,
      severity |-> 5],
     \* 'ache' under `symptom_type`: a substring of the keyword 'headache'
     [symptom_type |-> <<"a","c","h","e">>, severity |-> 6],
     \* 'chest pain' under `type`, low severity
     [type |-> <<"c","h","e","s","t"," ","p","a","i","n">>, severity |-> 1],
     \* empty `type`, 'Fatigue' under `symptomType` (a keyword of two conditions)
     [type |-> <<>>, symptomType |-> <<"F","a","t","i","g","u","e">>, severity |-> 5],
     \* 'Chest Pain ' under `symptomType` only
     [symptomType |-> <<"C","h","e","s","t"," ","P","a","i","n"," ">>, severity |-> 3],
     \* no type under any name, high severity
     [type |-> <<>>, symptom_type |-> <<>>, severity |-> 9],
     \* 'dizziness' (a keyword of two conditions), no severity key
     [type |-> <<"d","i","z","z","i","n","e","s","s">>],
     \* blank `type` in front of a `symptomType`
     [type |-> <<" "," ">>, symptomType |-> <<"n","a","u","s","e","a">>, severity |-> 2]
  >>

SymptomEntrySet == {SymptomEntries[k] : k \in 1..Len(SymptomEntries)}

\* an entry whose `type` is JSON null, next to a `symptomType`
NullTypeEntry ==
  [type |-> NoneStr, symptomType |-> <<"f","e","v","e","r">>, severity |-> 4]

\* an entry whose severity is the text 'high' instead of a number
TextSeverityEntry ==
  [type |-> <<"h","e","a","d","a","c","h","e">>, severity |-> <<"h","i","g","h">>,
   notes |-> <<>>]

\* the entries whose severity is not a number
TextSeverityEntries == {TextSeverityEntry}

\* lists of up to MaxAnyOrder entries are explored in every order; longer
\* lists, up to MaxSymptoms entries, with their entries in catalogue order
MaxAnyOrder == 3

MaxSymptoms == 5

RECURSIVE NonDecreasing(_, _)
NonDecreasing(n, lo) ==
  IF n = 0 THEN {<<>>}
  ELSE UNION {{<<k>> \o t : t \in NonDecreasing(n - 1, k)} :
                k \in lo..Len(SymptomEntries)}

SymptomLists ==
  UNION {[1..n -> SymptomEntrySet] : n \in 0..MaxAnyOrder}
  \cup
  UNION {{[k \in 1..n |-> SymptomEntries[f[k]]] : f \in NonDecreasing(n, 1)} :
           n \in (MaxAnyOrder + 1)..MaxSymptoms}

VARIABLES
  symptoms,             \* request.lifestyleData.symptoms
  pc,                   \* where the call is
  idx,                  \* 1-based position of the for loop of line 424
  symptom_type,         \* local of the last loop iteration (line 427)
  detected_symptoms,    \* local list (line 419)
  condition_scores,     \* local dict (line 420)
  total_severity,       \* local (line 421)
  max_severity,         \* local (line 422)
  symptom_data,         \* what analyze_symptom_risks returned
  symptomRiskAnalysis,  \* the response's field (line 764)
  user,                 \* request.userProfile of POST /predict/health-risk
  lifestyle,            \* request.lifestyleData without its symptoms list
  obesity_model,        \* models.obesity_model: "TabNetClassifier" or "None"
  fp_round,             \* sign of the rounding error of the float BMI
  response,             \* what the endpoint answered
  cls_instance,         \* LightweightMLModels._instance
  objects,              \* the attributes of every instance created so far
  model_objects,        \* the TabNet objects created so far
  thread,               \* per thread: where it is and its locals
  load_count,           \* per archive: how often load_model read it
  loadable,             \* the archives that load_model can load
  df,                   \* the dataframe feature derivation works on
  engineer,             \* the implementation that derives its features
  calls,                \* how often that implementation has run on df
  df_enriched,          \* what its first run returned
  models,               \* the MLModels instance of fastapi_server.py
  load_pc,              \* where models._load_models() is
  archives,             \* the model archives load_model can load right now
  attempts,             \* per model: how often load_model was called for it
  outcome,              \* per model: how its load ended
  load_calls,           \* how often _load_models was called
  health                \* what GET / answered last

symptomVars ==
  <<symptoms, pc, idx, symptom_type, detected_symptoms, condition_scores,
    total_severity, max_severity, symptom_data, symptomRiskAnalysis>>

riskVars == <<user, lifestyle, obesity_model, fp_round, response>>

loadVars == <<cls_instance, objects, model_objects, thread, load_count, loadable>>

featureVars == <<df, engineer, calls, df_enriched>>

serverVars == <<models, load_pc, archives, attempts, outcome, load_calls, health>>

vars == <<symptomVars, riskVars, loadVars, featureVars, serverVars>>

\* placeholder of a variable that holds nothing yet
Unset == [unset |-> TRUE]

\* no request is being answered
RiskIdle ==
  /\ user = Unset
  /\ lifestyle = Unset
  /\ obesity_model = "None"
  /\ fp_round = 0
  /\ response = Unset

\* the models of fastapi_server.py, in the order _load_models loads them
ServerModels == <<"obesity_model", "exercise_model", "menstrual_model">>

ServerModelSet == {ServerModels[k] : k \in 1..Len(ServerModels)}

\* MLModels.__new__, lines 254-260: the instance before any load
NewMLModels ==
  [_initialized |-> FALSE, obesity_model |-> "None", exercise_model |-> "None",
   menstrual_model |-> "None"]

\* the server's model loader is not looked at
ServerIdle ==
  /\ models = NewMLModels
  /\ load_pc = "idle"
  /\ archives = {}
  /\ attempts = [m \in ServerModelSet |-> 0]
  /\ outcome = [m \in ServerModelSet |-> "none"]
  /\ load_calls = 0
  /\ health = Unset

\* no dataframe is being enriched
FeatureIdle ==
  /\ df = <<>>
  /\ engineer = "none"
  /\ calls = 0
  /\ df_enriched = <<>>

\* no thread uses the model cache
LoadIdle ==
  /\ cls_instance = 0
  /\ objects = <<>>
  /\ model_objects = <<>>
  /\ thread = <<>>
  /\ load_count = <<>>
  /\ loadable = {}

\* a variant that puts equal scores in reverse insertion order
SortedConditions_TiesReversed(scores) ==
  LET before(c, d) == \/ scores[ConditionNames[c]] > scores[ConditionNames[d]]
                      \/ /\ scores[ConditionNames[c]] = scores[ConditionNames[d]]
                         /\ c > d
      pos(c) == 1 + Cardinality({d \in 1..NumConditions : before(d, c)})
  IN  [k \in 1..NumConditions |->
         ConditionNames[CHOOSE c \in 1..NumConditions : pos(c) = k]]

\* lines 454-456: condition names ordered as
\* sorted(condition_scores.items(), key=lambda x: x[1], reverse=True) orders
\* them: descending score, equal scores in their original (insertion) order
\* (Python's sort is stable, also with reverse=True)
SortedConditions(scores) ==
  LET before(c, d) == \/ scores[ConditionNames[c]] > scores[ConditionNames[d]]
                      \/ /\ scores[ConditionNames[c]] = scores[ConditionNames[d]]
                         /\ c < d
      pos(c) == 1 + Cardinality({d \in 1..NumConditions : before(d, c)})
  IN  [k \in 1..NumConditions |->
         ConditionNames[CHOOSE c \in 1..NumConditions : pos(c) = k]]

\* lines 457-459: walk the sorted items, keep the positive ones while fewer
\* than 3 are kept
RECURSIVE TakeProbable(_, _, _)
TakeProbable(sorted, scores, acc) ==
  IF sorted = <<>> THEN acc
  ELSE TakeProbable(Tail(sorted), scores,
                    IF scores[Head(sorted)] > 0 /\ Len(acc) < 3
                    THEN Append(acc, Head(sorted)) ELSE acc)

\* a variant without the fallback of lines 461-462
ProbableConditions_NoSentinel(scores) ==
  TakeProbable(SortedConditions(scores), scores, <<>>)

\* lines 454-462
ProbableConditions(scores) ==
  LET probable == TakeProbable(SortedConditions(scores), scores, <<>>)
  IN  IF probable = <<>> THEN <<GeneralSentinel>> ELSE probable

\* line 468: any('chest pain' in s.get('type', '').lower() for s in symptoms)
AnyChestPain(syms) ==
  \E k \in 1..Len(syms) : Contains(Lower(Get(syms[k], "type", <<>>)), ChestPain)

\* lines 465-479; avg_severity >= n is total_severity >= n * symptom_count
RiskAndUrgency(syms, total, maxsev) ==
  LET symptom_count == Len(syms)
  IN  IF symptom_count >= 5 \/ maxsev >= 8 \/ AnyChestPain(syms)
      THEN [riskLevel |-> "Critical",
            urgency |-> "Urgent Care - Seek immediate medical attention"]
      ELSE IF symptom_count >= 3 \/ total >= 6 * symptom_count
      THEN [riskLevel |-> "High",
            urgency |-> "Seek Medical Attention - Schedule appointment within 24-48 hours"]
      ELSE IF symptom_count >= 2 \/ total >= 4 * symptom_count
      THEN [riskLevel |-> "Moderate",
            urgency |-> "Schedule Checkup - Consult healthcare provider within a week"]
      ELSE [riskLevel |-> "Low",
            urgency |-> "Monitor - Track symptoms and seek care if they worsen"]

\* lines 432-436: the record appended to detected_symptoms
DetectedSymptom(symptom) ==
  [type |-> IF Truthy(SymptomTypeRaw(symptom)) THEN SymptomTypeRaw(symptom)
            ELSE Unknown,
   severity |-> Severity(symptom),
   description |-> Or(Get(symptom, "description", NoneStr),
                      Get(symptom, "notes", <<>>))]

\* the first matching condition of each entry a request can carry
MatchTable ==
  [s \in SymptomEntrySet \cup {NullTypeEntry} |-> MatchedCondition(SymptomType(s))]

SymptomInit ==
  /\ symptoms \in SymptomLists
  /\ pc = "idle"
  /\ idx = 0
  /\ symptom_type = Unset
  /\ detected_symptoms = <<>>
  /\ condition_scores = Unset
  /\ total_severity = 0
  /\ max_severity = 0
  /\ symptom_data = Unset
  /\ symptomRiskAnalysis = Unset
  /\ RiskIdle
  /\ LoadIdle
  /\ FeatureIdle
  /\ ServerIdle

\* a variant that answers an empty list with an empty analysis object
HandlerNoSymptoms_EmptyObject ==
  /\ pc = "idle"
  /\ symptoms = <<>>
  /\ symptomRiskAnalysis' = [probableConditions |-> <<>>, riskLevel |-> "Low",
                             urgency |-> "", detectedSymptoms |-> <<>>]
  /\ pc' = "responded"
  /\ UNCHANGED <<symptoms, idx, symptom_type, detected_symptoms,
                 condition_scores, total_severity, max_severity, symptom_data>>
  /\ UNCHANGED <<riskVars, loadVars, featureVars, serverVars>>

\* predict_health_risk, lines 754-755 with an empty list: no call is made
HandlerNoSymptoms ==
  /\ pc = "idle"
  /\ symptoms = <<>>
  /\ symptomRiskAnalysis' = None
  /\ pc' = "responded"
  /\ UNCHANGED <<symptoms, idx, symptom_type, detected_symptoms,
                 condition_scores, total_severity, max_severity, symptom_data>>
  /\ UNCHANGED <<riskVars, loadVars, featureVars, serverVars>>

\* analyze_symptom_risks called with an empty list: lines 399-400
AnalyzeEmpty ==
  /\ pc = "idle"
  /\ symptoms = <<>>
  /\ symptom_data' = None
  /\ pc' = "returned_none"
  /\ UNCHANGED <<symptoms, idx, symptom_type, detected_symptoms,
                 condition_scores, total_severity, max_severity,
                 symptomRiskAnalysis>>
  /\ UNCHANGED <<riskVars, loadVars, featureVars, serverVars>>

\* analyze_symptom_risks called with a non-empty list (by the handler,
\* line 756, or directly): lines 399-422
AnalyzeBegin ==
  /\ pc = "idle"
  /\ symptoms # <<>>
  /\ detected_symptoms' = <<>>
  /\ condition_scores' = [c \in Conditions |-> 0]
  /\ total_severity' = 0
  /\ max_severity' = 0
  /\ idx' = 1
  /\ pc' = "loop"
  /\ UNCHANGED <<symptoms, symptom_type, symptom_data, symptomRiskAnalysis>>
  /\ UNCHANGED <<riskVars, loadVars, featureVars, serverVars>>

\* index of the condition the loop of lines 443-452 credits for the entry
CreditedCondition(symptom) == MatchTable[symptom]

\* max(a, b)
Max(a, b) == IF a >= b THEN a ELSE b

\* one iteration of the for loop, lines 424-452
AnalyzeSymptom ==
  /\ pc = "loop"
  /\ idx <= Len(symptoms)
  /\ LET symptom == symptoms[idx]
         severity == Severity(symptom)
         c == CreditedCondition(symptom)
     IN  /\ symptom_type' = SymptomType(symptom)
         /\ detected_symptoms' = Append(detected_symptoms, DetectedSymptom(symptom))
         /\ total_severity' = total_severity + severity
         /\ max_severity' = Max(max_severity, severity)
         /\ condition_scores' =
              IF c = 0 THEN condition_scores
              ELSE [condition_scores EXCEPT ![ConditionNames[c]] = @ + severity]
  /\ idx' = idx + 1
  /\ UNCHANGED <<symptoms, pc, symptom_data, symptomRiskAnalysis>>
  /\ UNCHANGED <<riskVars, loadVars, featureVars, serverVars>>

\* after the loop: lines 454-486
AnalyzeReturn ==
  /\ pc = "loop"
  /\ idx > Len(symptoms)
  /\ LET risk == RiskAndUrgency(symptoms, total_severity, max_severity)
     IN  symptom_data' = [probableConditions |-> ProbableConditions(condition_scores),
                          riskLevel |-> risk.riskLevel,
                          urgency |-> risk.urgency,
                          detectedSymptoms |-> detected_symptoms]
  /\ pc' = "returned"
  /\ UNCHANGED <<symptoms, idx, symptom_type, detected_symptoms,
                 condition_scores, total_severity, max_severity,
                 symptomRiskAnalysis>>
  /\ UNCHANGED <<riskVars, loadVars, featureVars, serverVars>>

\* predict_health_risk, lines 757-758 and 764: a returned dict becomes the
\* response's symptomRiskAnalysis
HandlerAttach ==
  /\ pc = "returned"
  /\ symptomRiskAnalysis' = IF symptom_data # None THEN symptom_data ELSE None
  /\ pc' = "responded"
  /\ UNCHANGED <<symptoms, idx, symptom_type, detected_symptoms,
                 condition_scores, total_severity, max_severity, symptom_data>>
  /\ UNCHANGED <<riskVars, loadVars, featureVars, serverVars>>

SymptomNext ==
  \/ HandlerNoSymptoms
  \/ AnalyzeEmpty
  \/ AnalyzeBegin
  \/ AnalyzeSymptom
  \/ AnalyzeReturn
  \/ HandlerAttach

SymptomSpec == SymptomInit /\ [][SymptomNext]_vars

(***************************************************************************)
(* Properties of analyze_symptom_risks                                     *)
(***************************************************************************)
RECURSIVE SumSeverity(_)
SumSeverity(syms) ==
  IF syms = <<>> THEN 0 ELSE Severity(Head(syms)) + SumSeverity(Tail(syms))

MaxOfSeverities(syms) ==
  IF \A k \in 1..Len(syms) : Severity(syms[k]) <= 0 THEN 0
  ELSE CHOOSE m \in {Severity(syms[k]) : k \in 1..Len(syms)} :
         \A k \in 1..Len(syms) : Severity(syms[k]) <= m

UrgencyOf(level) ==
  CASE level = "Critical" -> "Urgent Care - Seek immediate medical attention"
    [] level = "High" ->
         "Seek Medical Attention - Schedule appointment within 24-48 hours"
    [] level = "Moderate" ->
         "Schedule Checkup - Consult healthcare provider within a week"
    [] OTHER -> "Monitor - Track symptoms and seek care if they worsen"

\* the accepted field names, in the order they are consulted
TypeFields == <<"type", "symptomType", "symptom_type">>

\* the normalized type of an entry as the specification words it: the first
\* non-empty value among the three fields, lowercased and trimmed
FirstNonEmptyType(symptom) ==
  LET filled == {f \in 1..Len(TypeFields) :
                   /\ TypeFields[f] \in DOMAIN symptom
                   /\ symptom[TypeFields[f]] # <<>>}
  IN  IF filled = {} THEN <<>>
      ELSE Strip(Lower(symptom[TypeFields[CHOOSE f \in filled :
                                             \A g \in filled : f <= g]]))

SomeTypeContainsChestPain(syms) ==
  \E k \in 1..Len(syms) : Contains(FirstNonEmptyType(syms[k]), ChestPain)

\* the level of the first rule that holds, as the specification lists them
FirstRuleLevel(syms) ==
  LET n == Len(syms)
      total == SumSeverity(syms)
  IN  IF n >= 5 \/ MaxOfSeverities(syms) >= 8 \/ SomeTypeContainsChestPain(syms)
      THEN "Critical"
      ELSE IF n >= 3 \/ total >= 6 * n THEN "High"
      ELSE IF n >= 2 \/ total >= 4 * n THEN "Moderate"
      ELSE "Low"

\* C1: for every non-empty symptom list the returned risk level is that of the
\* first rule that holds, in the order Critical (count >= 5, max severity >= 8
\* or some symptom type contains 'chest pain'), High (count >= 3 or average
\* severity >= 6), Moderate (count >= 2 or average severity >= 4), else Low,
\* and the urgency returned is the one paired with that level.
C1_RiskLevelOfFirstRule ==
  pc = "returned" =>
    /\ symptom_data.riskLevel = FirstRuleLevel(symptoms)
    /\ symptom_data.urgency = UrgencyOf(symptom_data.riskLevel)

\* C2: if any symptom's type contains 'chest pain' the risk level is Critical,
\* whichever of the field names type, symptomType, symptom_type carries the
\* symptom type.
C2_ChestPainIsCriticalUnderAnyFieldName ==
  (pc = "returned" /\ SomeTypeContainsChestPain(symptoms)) =>
    symptom_data.riskLevel = "Critical"

InList(seq, x) == \E k \in 1..Len(seq) : seq[k] = x

\* C3: a list that contains a symptom of type 'chest pain' with positive
\* severity yields risk level Critical, the Urgent Care urgency and
\* 'Cardiovascular' among the probable conditions, whatever accompanies it.
C3_ChestPainYieldsCriticalAndCardiovascular ==
  (/\ pc = "returned"
   /\ \E k \in 1..Len(symptoms) :
        /\ FirstNonEmptyType(symptoms[k]) = ChestPain
        /\ Severity(symptoms[k]) > 0)
  => /\ symptom_data.riskLevel = "Critical"
     /\ symptom_data.urgency = UrgencyOf("Critical")
     /\ InList(symptom_data.probableConditions, "Cardiovascular")

PhraseRelated(type, c) ==
  \E p \in 1..Len(symptom_patterns[c].patterns) :
     \/ Contains(type, symptom_patterns[c].patterns[p])
     \/ Contains(symptom_patterns[c].patterns[p], type)

\* the first condition, in table order, with a related phrase (0: none)
FirstRelatedCondition(type) ==
  IF \E c \in 1..NumConditions : PhraseRelated(type, c)
  THEN CHOOSE c \in 1..NumConditions :
         /\ PhraseRelated(type, c)
         /\ \A d \in 1..(c - 1) : ~PhraseRelated(type, d)
  ELSE 0

RelatedTable == [s \in SymptomEntrySet |-> FirstRelatedCondition(FirstNonEmptyType(s))]

RECURSIVE SumWhere(_, _, _)
\* sum of the severities of the entries of syms that table maps to a member of cs
SumWhere(syms, table, cs) ==
  IF syms = <<>> THEN 0
  ELSE (IF table[Head(syms)] \in cs THEN Severity(Head(syms)) ELSE 0)
       + SumWhere(Tail(syms), table, cs)

RECURSIVE SumScores(_, _)
SumScores(scores, c) ==
  IF c = 0 THEN 0 ELSE scores[ConditionNames[c]] + SumScores(scores, c - 1)

Processed == SubSeq(symptoms, 1, idx - 1)

\* C5 as stated: every symptom (an empty type included) adds its severity to
\* the first condition, in table order, that has a phrase related to its type.
C5_EverySymptomScoresFirstRelated ==
  pc = "loop" =>
    \A c \in 1..NumConditions :
       condition_scores[ConditionNames[c]] = SumWhere(Processed, RelatedTable, {c})

\* condition c lists the phrase itself
ListsPhrase(c, phrase) ==
  \E p \in 1..Len(symptom_patterns[c].patterns) :
     symptom_patterns[c].patterns[p] = phrase

\* the same table with the entries of empty type matching nothing
NonEmptyRelatedTable ==
  [s \in SymptomEntrySet |->
     IF FirstNonEmptyType(s) = <<>> THEN 0 ELSE RelatedTable[s]]

\* C5 (amended): each symptom whose normalized type is not empty adds its
\* severity to at most one condition, the first in table order that has a
\* phrase which is a substring of the type or of which the type is a
\* substring; a symptom whose normalized type is empty adds to none; shared
\* keywords score for the earliest-declared condition; after any prefix of the
\* list the sum of all scores is the sum of the severities of the matched
\* symptoms.
C5_FirstRelatedConditionScores ==
  pc = "loop" =>
    /\ \A c \in 1..NumConditions :
         condition_scores[ConditionNames[c]] =
           SumWhere(Processed, NonEmptyRelatedTable, {c})
    /\ SumScores(condition_scores, NumConditions) =
         SumWhere(Processed, NonEmptyRelatedTable, 1..NumConditions)
    /\ \A k \in 1..Len(Processed) : \A c \in 1..NumConditions :
         ListsPhrase(c, FirstNonEmptyType(Processed[k]))
         => NonEmptyRelatedTable[Processed[k]] \in 1..c

\* a shared keyword with positive severity and an entry of empty type have
\* been processed
C5_Witness ==
  /\ pc = "loop"
  /\ \E k \in 1..Len(Processed) :
       /\ FirstNonEmptyType(Processed[k]) = <<"f","a","t","i","g","u","e">>
       /\ condition_scores["Endocrine/Metabolic"] >= Severity(Processed[k])
       /\ Severity(Processed[k]) > 0
       /\ condition_scores["General/Systemic"] = 0
  /\ \E k \in 1..Len(Processed) :
       FirstNonEmptyType(Processed[k]) = <<>> /\ Severity(Processed[k]) > 0

\* index of a condition name in the table
ConditionIndex(name) == CHOOSE c \in 1..NumConditions : ConditionNames[c] = name

\* condition a ranks before condition b: higher score, or equal score and
\* declared earlier
RanksBefore(scores, a, b) ==
  \/ scores[a] > scores[b]
  \/ scores[a] = scores[b] /\ ConditionIndex(a) < ConditionIndex(b)

\* C6: probableConditions lists at most 3 condition names, each with
\* accumulated score > 0, in descending score order, equal scores in
\* table-declaration order; no condition with a higher score than a listed one
\* is left out.
C6_TopThreeByScore ==
  (pc = "returned" /\ \E c \in Conditions : condition_scores[c] > 0) =>
    LET probable == symptom_data.probableConditions
        listed == {probable[k] : k \in 1..Len(probable)}
    IN  /\ Len(probable) <= 3
        /\ listed \subseteq Conditions
        /\ \A c \in listed : condition_scores[c] > 0
        /\ \A j, k \in 1..Len(probable) :
             j < k => RanksBefore(condition_scores, probable[j], probable[k])
        /\ \A c \in Conditions \ listed :
             condition_scores[c] > 0 =>
               /\ Len(probable) = 3
               /\ \A d \in listed : RanksBefore(condition_scores, d, c)

\* four conditions have a positive score, two of them the same one, and one
\* of the tied ones is left out
C6_Witness ==
  /\ pc = "returned"
  /\ Cardinality({c \in Conditions : condition_scores[c] > 0}) >= 4
  /\ Len(symptom_data.probableConditions) = 3
  /\ \E c \in Conditions :
       /\ ~InList(symptom_data.probableConditions, c)
       /\ condition_scores[c] > 0
       /\ condition_scores[c] = condition_scores[symptom_data.probableConditions[3]]

\* C7: when no condition has a positive score (no symptom matches a keyword,
\* or every matched symptom has severity 0) probableConditions is exactly the
\* one-element list of the sentinel; otherwise the sentinel never appears.
C7_SentinelIffNoPositiveScore ==
  pc = "returned" =>
    /\ (\A c \in Conditions : condition_scores[c] <= 0)
         => symptom_data.probableConditions = <<GeneralSentinel>>
    /\ (\E c \in Conditions : condition_scores[c] > 0)
         => ~InList(symptom_data.probableConditions, GeneralSentinel)
    /\ (\A k \in 1..Len(symptoms) :
          NonEmptyRelatedTable[symptoms[k]] = 0 \/ Severity(symptoms[k]) = 0)
         <=> symptom_data.probableConditions = <<GeneralSentinel>>

\* the sentinel is returned for a list with a matched symptom of severity 0
\* and an unmatched symptom of positive severity
C7_Witness ==
  /\ pc = "returned"
  /\ symptom_data.probableConditions = <<GeneralSentinel>>
  /\ \E k \in 1..Len(symptoms) :
       NonEmptyRelatedTable[symptoms[k]] # 0 /\ Severity(symptoms[k]) = 0
  /\ \E k \in 1..Len(symptoms) :
       NonEmptyRelatedTable[symptoms[k]] = 0 /\ Severity(symptoms[k]) > 0

\* the entry carries no type under any of the three names
NoTypeUnderAnyName(symptom) ==
  \A f \in 1..Len(TypeFields) :
     TypeFields[f] \in DOMAIN symptom => symptom[TypeFields[f]] = <<>>

\* C8: the type used for matching is the first non-empty value among type,
\* symptomType, symptom_type (in that order), lowercased and trimmed; a record
\* whose type is empty under all three names matches no condition but still
\* counts toward the symptom count and the severity totals.
C8_TypeIsFirstNonEmptyField ==
  /\ [](pc = "loop" /\ idx > 1 =>
          /\ symptom_type = FirstNonEmptyType(symptoms[idx - 1])
          /\ Len(detected_symptoms) = idx - 1
          /\ total_severity = SumSeverity(Processed)
          /\ max_severity = MaxOfSeverities(Processed))
  /\ [][(pc = "loop" /\ idx <= Len(symptoms) /\ NoTypeUnderAnyName(symptoms[idx]))
          => /\ condition_scores' = condition_scores
             /\ total_severity' = total_severity + Severity(symptoms[idx])
             /\ Len(detected_symptoms') = Len(detected_symptoms) + 1]_symptomVars
  /\ [](pc = "returned" =>
          /\ Len(symptom_data.detectedSymptoms) = Len(symptoms)
          /\ Len(symptoms) >= 5 => symptom_data.riskLevel = "Critical"
          /\ Len(symptoms) >= 3 => symptom_data.riskLevel \in {"High", "Critical"}
          /\ Len(symptoms) >= 2 => symptom_data.riskLevel # "Low")

\* an entry without a type under any name and with positive severity has just
\* been processed
C8_Witness ==
  /\ pc = "loop"
  /\ idx > 1
  /\ NoTypeUnderAnyName(symptoms[idx - 1])
  /\ Severity(symptoms[idx - 1]) > 0
  /\ symptom_type = <<>>
  /\ total_severity >= Severity(symptoms[idx - 1])

(***************************************************************************)
(* POST /predict/health-risk (predict_health_risk) and its helpers.        *)
(*                                                                         *)
(* Floats: weights, heights, ages and the other request numbers are        *)
(* integers here, so every sum and product below is exact in the code's    *)
(* double arithmetic as well.  The BMI is a quotient; it is kept as the    *)
(* exact fraction num/den together with the sign of the rounding error of  *)
(* the computed double, which decides a comparison only when the exact     *)
(* fraction equals the threshold.  An average is kept as sum/count.        *)
(* Optional[int] values are <<>> for None and <<v>> for the value v.       *)
(* Probabilities are in thousandths.                                       *)
(***************************************************************************)
Male == <<"m","a","l","e">>

\* line 281-283
obesity_classes ==
  <<"Insufficient_Weight", "Normal_Weight", "Obesity_Type_I", "Obesity_Type_II",
    "Obesity_Type_III", "Overweight_Level_I", "Overweight_Level_II">>

\* `x or d` on an Optional number: None and 0 are falsy
OrDefault(x, d) == IF x = <<>> \/ x = <<0>> THEN d ELSE x[1]

\* sum of a sequence of numbers
RECURSIVE Sum(_)
Sum(seq) == IF seq = <<>> THEN 0 ELSE Head(seq) + Sum(Tail(seq))

\* the lists of a list of lists, joined (list.extend in a loop)
RECURSIVE Concat(_)
Concat(lists) == IF lists = <<>> THEN <<>> ELSE Head(lists) \o Concat(Tail(lists))

\* max of a non-empty sequence of numbers
MaxOf(seq) ==
  CHOOSE m \in {seq[k] : k \in 1..Len(seq)} : \A k \in 1..Len(seq) : seq[k] <= m

\* q < n/d and q >= n/d for a fraction q = [num, den, round] with den > 0
Less(q, n, d) ==
  \/ q.num * d < n * q.den
  \/ q.num * d = n * q.den /\ q.round < 0

AtLeast(q, n, d) == ~Less(q, n, d)

\* aggregate_lifestyle_data, lines 347-394 (mood_variability, a square root
\* that nothing reads, is left out)
aggregate_lifestyle_data(lifestyle_data, syms) ==
  LET moods == [k \in 1..Len(lifestyle_data.moodLogs) |->
                  Get(lifestyle_data.moodLogs[k], "intensity", 5)]
      all_factors == Concat([k \in 1..Len(lifestyle_data.moodLogs) |->
                               Get(lifestyle_data.moodLogs[k], "factors", <<>>)])
      severities == [k \in 1..Len(syms) |-> Get(syms[k], "severity", 0)]
  IN  [daily_water_ml |-> lifestyle_data.totalWaterMl,
       hydration_frequency |-> Len(lifestyle_data.hydrationLogs),
       avg_water_per_log |->
         [num |-> lifestyle_data.totalWaterMl,
          den |-> Max(Len(lifestyle_data.hydrationLogs), 1), round |-> 0],
       avg_mood_intensity |->
         IF moods # <<>> THEN [num |-> Sum(moods), den |-> Len(moods), round |-> 0]
         ELSE [num |-> 5, den |-> 1, round |-> 0],
       stress_factors_count |->
         IF moods # <<>>
         THEN Cardinality({k \in 1..Len(all_factors) :
                             all_factors[k] \in {"work", "stress", "anxiety"}})
         ELSE 0,
       symptom_count |-> Len(syms),
       avg_symptom_severity |->
         IF syms # <<>>
         THEN [num |-> Sum(severities), den |-> Len(syms), round |-> 0]
         ELSE [num |-> 0, den |-> 1, round |-> 0],
       max_symptom_severity |-> IF syms # <<>> THEN MaxOf(severities) ELSE 0,
       exercise_duration |-> OrDefault(lifestyle_data.exerciseDuration, 0),
       exercise_intensity |-> OrDefault(lifestyle_data.exerciseIntensity, 0),
       heart_rate |-> OrDefault(lifestyle_data.heartRate, 0),
       sleep_hours |-> OrDefault(lifestyle_data.sleepHours, 7),
       calories_consumed |-> OrDefault(lifestyle_data.caloriesConsumed, 2000)]

\* recommendations[:6]
FirstSix(seq) == SubSeq(seq, 1, IF Len(seq) < 6 THEN Len(seq) ELSE 6)

\* a variant whose BMI rules are independent ifs and whose list is not cut
generate_recommendations_NoLimit(risk_level, bmi, f) ==
  LET symptom_rec ==
        IF f.symptom_count > 0
        THEN IF f.symptom_count >= 5 \/ f.max_symptom_severity >= 8
             THEN <<[rule |-> "symptoms_urgent", symptom_count |-> f.symptom_count,
                     max_severity |-> f.max_symptom_severity]>>
             ELSE IF f.symptom_count >= 3 \/ AtLeast(f.avg_symptom_severity, 6, 1)
             THEN <<[rule |-> "symptoms_checkup", symptom_count |-> f.symptom_count,
                     avg_severity |-> f.avg_symptom_severity]>>
             ELSE <<[rule |-> "symptoms_monitor", symptom_count |-> f.symptom_count]>>
        ELSE <<>>
      bmi_rec ==
        (IF Less(bmi, 37, 2) THEN <<[rule |-> "bmi_underweight", bmi |-> bmi]>> ELSE <<>>)
        \o (IF AtLeast(bmi, 30, 1) THEN <<[rule |-> "bmi_obesity", bmi |-> bmi]>> ELSE <<>>)
        \o (IF AtLeast(bmi, 25, 1) THEN <<[rule |-> "bmi_overweight", bmi |-> bmi]>> ELSE <<>>)
      water_rec ==
        IF f.daily_water_ml < 1500
        THEN <<[rule |-> "hydration", water_ml |-> f.daily_water_ml]>> ELSE <<>>
      exercise_rec ==
        IF f.exercise_duration < 30
        THEN <<[rule |-> "exercise", exercise_min |-> f.exercise_duration]>> ELSE <<>>
      mood_rec ==
        IF Less(f.avg_mood_intensity, 4, 1)
        THEN <<[rule |-> "mood", avg_mood |-> f.avg_mood_intensity]>> ELSE <<>>
      sleep_rec ==
        IF f.sleep_hours < 6
        THEN <<[rule |-> "sleep", sleep_hrs |-> f.sleep_hours]>> ELSE <<>>
  IN  symptom_rec \o bmi_rec \o water_rec \o exercise_rec \o mood_rec \o sleep_rec

\* a variant that runs the sleep rule before the mood rule
generate_recommendations_SleepBeforeMood(risk_level, bmi, f) ==
  LET symptom_rec ==
        IF f.symptom_count > 0
        THEN IF f.symptom_count >= 5 \/ f.max_symptom_severity >= 8
             THEN <<[rule |-> "symptoms_urgent", symptom_count |-> f.symptom_count,
                     max_severity |-> f.max_symptom_severity]>>
             ELSE IF f.symptom_count >= 3 \/ AtLeast(f.avg_symptom_severity, 6, 1)
             THEN <<[rule |-> "symptoms_checkup", symptom_count |-> f.symptom_count,
                     avg_severity |-> f.avg_symptom_severity]>>
             ELSE <<[rule |-> "symptoms_monitor", symptom_count |-> f.symptom_count]>>
        ELSE <<>>
      bmi_rec ==
        IF Less(bmi, 37, 2) THEN <<[rule |-> "bmi_underweight", bmi |-> bmi]>>
        ELSE IF AtLeast(bmi, 30, 1) THEN <<[rule |-> "bmi_obesity", bmi |-> bmi]>>
        ELSE IF AtLeast(bmi, 25, 1) THEN <<[rule |-> "bmi_overweight", bmi |-> bmi]>>
        ELSE <<>>
      water_rec ==
        IF f.daily_water_ml < 1500
        THEN <<[rule |-> "hydration", water_ml |-> f.daily_water_ml]>> ELSE <<>>
      exercise_rec ==
        IF f.exercise_duration < 30
        THEN <<[rule |-> "exercise", exercise_min |-> f.exercise_duration]>> ELSE <<>>
      mood_rec ==
        IF Less(f.avg_mood_intensity, 4, 1)
        THEN <<[rule |-> "mood", avg_mood |-> f.avg_mood_intensity]>> ELSE <<>>
      sleep_rec ==
        IF f.sleep_hours < 6
        THEN <<[rule |-> "sleep", sleep_hrs |-> f.sleep_hours]>> ELSE <<>>
  IN  FirstSix(symptom_rec \o bmi_rec \o water_rec \o exercise_rec \o sleep_rec
               \o mood_rec)

\* a variant whose hydration rule is an elif of the BMI rules
generate_recommendations_HydrationElif(risk_level, bmi, f) ==
  LET symptom_rec ==
        IF f.symptom_count > 0
        THEN IF f.symptom_count >= 5 \/ f.max_symptom_severity >= 8
             THEN <<[rule |-> "symptoms_urgent", symptom_count |-> f.symptom_count,
                     max_severity |-> f.max_symptom_severity]>>
             ELSE IF f.symptom_count >= 3 \/ AtLeast(f.avg_symptom_severity, 6, 1)
             THEN <<[rule |-> "symptoms_checkup", symptom_count |-> f.symptom_count,
                     avg_severity |-> f.avg_symptom_severity]>>
             ELSE <<[rule |-> "symptoms_monitor", symptom_count |-> f.symptom_count]>>
        ELSE <<>>
      bmi_rec ==
        IF Less(bmi, 37, 2) THEN <<[rule |-> "bmi_underweight", bmi |-> bmi]>>
        ELSE IF AtLeast(bmi, 30, 1) THEN <<[rule |-> "bmi_obesity", bmi |-> bmi]>>
        ELSE IF AtLeast(bmi, 25, 1) THEN <<[rule |-> "bmi_overweight", bmi |-> bmi]>>
        ELSE <<>>
      water_rec ==
        IF bmi_rec = <<>> /\ f.daily_water_ml < 1500
        THEN <<[rule |-> "hydration", water_ml |-> f.daily_water_ml]>> ELSE <<>>
      exercise_rec ==
        IF f.exercise_duration < 30
        THEN <<[rule |-> "exercise", exercise_min |-> f.exercise_duration]>> ELSE <<>>
      mood_rec ==
        IF Less(f.avg_mood_intensity, 4, 1)
        THEN <<[rule |-> "mood", avg_mood |-> f.avg_mood_intensity]>> ELSE <<>>
      sleep_rec ==
        IF f.sleep_hours < 6
        THEN <<[rule |-> "sleep", sleep_hrs |-> f.sleep_hours]>> ELSE <<>>
  IN  FirstSix(symptom_rec \o bmi_rec \o water_rec \o exercise_rec \o mood_rec
               \o sleep_rec)

\* generate_recommendations, lines 489-534; a recommendation is the rule
\* that produced it with the values its message interpolates
generate_recommendations(risk_level, bmi, f) ==
  LET symptom_rec ==
        IF f.symptom_count > 0
        THEN IF f.symptom_count >= 5 \/ f.max_symptom_severity >= 8
             THEN <<[rule |-> "symptoms_urgent", symptom_count |-> f.symptom_count,
                     max_severity |-> f.max_symptom_severity]>>
             ELSE IF f.symptom_count >= 3 \/ AtLeast(f.avg_symptom_severity, 6, 1)
             THEN <<[rule |-> "symptoms_checkup", symptom_count |-> f.symptom_count,
                     avg_severity |-> f.avg_symptom_severity]>>
             ELSE <<[rule |-> "symptoms_monitor", symptom_count |-> f.symptom_count]>>
        ELSE <<>>
      bmi_rec ==
        IF Less(bmi, 37, 2) THEN <<[rule |-> "bmi_underweight", bmi |-> bmi]>>
        ELSE IF AtLeast(bmi, 30, 1) THEN <<[rule |-> "bmi_obesity", bmi |-> bmi]>>
        ELSE IF AtLeast(bmi, 25, 1) THEN <<[rule |-> "bmi_overweight", bmi |-> bmi]>>
        ELSE <<>>
      water_rec ==
        IF f.daily_water_ml < 1500
        THEN <<[rule |-> "hydration", water_ml |-> f.daily_water_ml]>> ELSE <<>>
      exercise_rec ==
        IF f.exercise_duration < 30
        THEN <<[rule |-> "exercise", exercise_min |-> f.exercise_duration]>> ELSE <<>>
      mood_rec ==
        IF Less(f.avg_mood_intensity, 4, 1)
        THEN <<[rule |-> "mood", avg_mood |-> f.avg_mood_intensity]>> ELSE <<>>
      sleep_rec ==
        IF f.sleep_hours < 6
        THEN <<[rule |-> "sleep", sleep_hrs |-> f.sleep_hours]>> ELSE <<>>
  IN  FirstSix(symptom_rec \o bmi_rec \o water_rec \o exercise_rec \o mood_rec
               \o sleep_rec)

\* line 570: bmi = user.weight / ((user.height / 100) ** 2), height # 0
BMI(weight, height, round) ==
  [num |-> weight * 10000, den |-> height * height, round |-> round]

\* a variant that numbers the classes in the order of the BMI thresholds
PredictionIdx_ThresholdOrder(bmi) ==
  IF Less(bmi, 37, 2) THEN 0
  ELSE IF Less(bmi, 25, 1) THEN 1
  ELSE IF Less(bmi, 27, 1) THEN 2
  ELSE IF Less(bmi, 30, 1) THEN 3
  ELSE IF Less(bmi, 35, 1) THEN 4
  ELSE IF Less(bmi, 40, 1) THEN 5
  ELSE 6

\* lines 573-593: prediction_idx (0-based, as in the code)
PredictionIdx(bmi) ==
  IF Less(bmi, 37, 2) THEN 0
  ELSE IF Less(bmi, 25, 1) THEN 1
  ELSE IF Less(bmi, 27, 1) THEN 5
  ELSE IF Less(bmi, 30, 1) THEN 6
  ELSE IF Less(bmi, 35, 1) THEN 2
  ELSE IF Less(bmi, 40, 1) THEN 3
  ELSE 4

\* lines 573-593: risk_level
BMIRiskLevel(bmi) ==
  IF Less(bmi, 37, 2) THEN "Insufficient_Weight"
  ELSE IF Less(bmi, 25, 1) THEN "Normal_Weight"
  ELSE IF Less(bmi, 27, 1) THEN "Overweight_Level_I"
  ELSE IF Less(bmi, 30, 1) THEN "Overweight_Level_II"
  ELSE IF Less(bmi, 35, 1) THEN "Obesity_Type_I"
  ELSE IF Less(bmi, 40, 1) THEN "Obesity_Type_II"
  ELSE "Obesity_Type_III"

\* lines 595-604, in hundredths of a kcal: 6.25 * height_cm is 625 hundredths
HandlerBMR(profile) ==
  LET is_male == Lower(profile.gender) = Male
      base == 1000 * profile.weight + 625 * profile.height - 500 * profile.age
  IN  IF is_male THEN base + 500 ELSE base - 16100

\* lines 606-635: the obesityRisk of the branch taken when the model is loaded
ObesityRiskWithModel(profile, bmi, f) ==
  LET prediction_idx == PredictionIdx(bmi)
      probabilities == [i \in 0..6 |-> IF i = prediction_idx THEN 850 ELSE 150 \div 6]
      prediction == prediction_idx
  IN  [riskLevel |-> BMIRiskLevel(bmi),
       confidence |-> probabilities[prediction],
       bmi |-> bmi,
       bmr |-> HandlerBMR(profile),
       recommendations |-> generate_recommendations(BMIRiskLevel(bmi), bmi, f),
       allProbabilities |->
         [c \in {obesity_classes[i + 1] : i \in 0..(Len(obesity_classes) - 1)} |->
            probabilities[CHOOSE i \in 0..(Len(obesity_classes) - 1) :
                            obesity_classes[i + 1] = c]]]

\* a variant whose fallback reports a fixed class instead of the BMI's
ObesityRiskFallback_FixedClass(profile, bmi, f) ==
  [riskLevel |-> "Normal_Weight",
   confidence |-> 850,
   bmi |-> bmi,
   bmr |-> HandlerBMR(profile),
   recommendations |-> generate_recommendations("Normal_Weight", bmi, f),
   allProbabilities |-> [c \in {"Normal_Weight"} |-> 850]]

\* lines 636-649: the obesityRisk of the fallback branch
ObesityRiskFallback(profile, bmi, f) ==
  [riskLevel |-> BMIRiskLevel(bmi),
   confidence |-> 850,
   bmi |-> bmi,
   bmr |-> HandlerBMR(profile),
   recommendations |-> generate_recommendations(BMIRiskLevel(bmi), bmi, f),
   allProbabilities |-> [c \in {BMIRiskLevel(bmi)} |-> 850]]

\* a variant without the clamp of line 718
OverallRiskScore_Unclamped(riskLevel, f) ==
  50 + (IF riskLevel \in {"Obesity_Type_II", "Obesity_Type_III"} THEN 30
        ELSE IF riskLevel \in {"Obesity_Type_I", "Overweight_Level_II"} THEN 15
        ELSE IF riskLevel = "Overweight_Level_I" THEN 5
        ELSE IF riskLevel = "Insufficient_Weight" THEN 10
        ELSE 0)
     + (IF f.symptom_count > 3 THEN 10 ELSE 0)
     + (IF f.exercise_duration < 20 THEN 10 ELSE 0)
     + (IF f.daily_water_ml < 1500 THEN 5 ELSE 0)
     + (IF f.sleep_hours < 6 THEN 10 ELSE 0)

\* lines 695-718
OverallRiskScore(riskLevel, f) ==
  LET obesity_part ==
        IF riskLevel \in {"Obesity_Type_II", "Obesity_Type_III"} THEN 30
        ELSE IF riskLevel \in {"Obesity_Type_I", "Overweight_Level_II"} THEN 15
        ELSE IF riskLevel = "Overweight_Level_I" THEN 5
        ELSE IF riskLevel = "Insufficient_Weight" THEN 10
        ELSE 0
      risk_score ==
        50 + obesity_part
           + (IF f.symptom_count > 3 THEN 10 ELSE 0)
           + (IF f.exercise_duration < 20 THEN 10 ELSE 0)
           + (IF f.daily_water_ml < 1500 THEN 5 ELSE 0)
           + (IF f.sleep_hours < 6 THEN 10 ELSE 0)
  IN  IF risk_score < 0 THEN 0 ELSE IF risk_score > 100 THEN 100 ELSE risk_score

\* lines 720-751: the insights, each as the rule that emitted it
KeyInsights(obesityRisk, risk_score, f) ==
  <<[insight |-> "bmi", bmi |-> obesityRisk.bmi, riskLevel |-> obesityRisk.riskLevel],
    [insight |-> "overall_score", risk_score |-> risk_score]>>
  \o (IF f.symptom_count > 0
      THEN <<[insight |-> "symptoms_logged", symptom_count |-> f.symptom_count,
              avg_severity |-> f.avg_symptom_severity,
              max_severity |-> f.max_symptom_severity]>>
      ELSE <<[insight |-> "no_symptoms"]>>)
  \o (IF f.exercise_duration > 30
      THEN <<[insight |-> "good_exercise", minutes |-> f.exercise_duration]>>
      ELSE <<[insight |-> "low_exercise", minutes |-> f.exercise_duration]>>)
  \o (IF f.daily_water_ml >= 2000
      THEN <<[insight |-> "adequate_hydration", water_ml |-> f.daily_water_ml]>>
      ELSE <<[insight |-> "low_hydration", water_ml |-> f.daily_water_ml]>>)
  \o (IF AtLeast(f.avg_mood_intensity, 6, 1)
      THEN <<[insight |-> "good_mood", avg_mood |-> f.avg_mood_intensity]>>
      ELSE IF f.avg_mood_intensity.num > 0
      THEN <<[insight |-> "lower_mood", avg_mood |-> f.avg_mood_intensity]>>
      ELSE <<>>)

\* the scores condition_scores holds when the loop of lines 424-452 is over
RECURSIVE ScoresAfter(_)
ScoresAfter(syms) ==
  IF syms = <<>> THEN [c \in Conditions |-> 0]
  ELSE LET before == ScoresAfter(SubSeq(syms, 1, Len(syms) - 1))
           last == syms[Len(syms)]
       IN  IF CreditedCondition(last) = 0 THEN before
           ELSE [before EXCEPT ![ConditionNames[CreditedCondition(last)]] =
                                  @ + Severity(last)]

\* analyze_symptom_risks as one call, lines 397-486
analyze_symptom_risks(syms) ==
  IF syms = <<>> THEN None
  ELSE LET severities == [k \in 1..Len(syms) |-> Severity(syms[k])]
           risk == RiskAndUrgency(syms, Sum(severities), Max(0, MaxOf(severities)))
       IN  [probableConditions |-> ProbableConditions(ScoresAfter(syms)),
            riskLevel |-> risk.riskLevel,
            urgency |-> risk.urgency,
            detectedSymptoms |-> [k \in 1..Len(syms) |-> DetectedSymptom(syms[k])]]

\* lines 376-377: np.mean raises on a list of severities that holds text
AggregateRaises(syms) ==
  \E k \in 1..Len(syms) : syms[k] \in TextSeverityEntries

\* line 468: s.get('type', '').lower() raises AttributeError on a null type;
\* it is evaluated only when the two tests before it are false, and any()
\* stops at the first entry that holds 'chest pain'
ChestPainTestRaises(syms) ==
  /\ Len(syms) < 5
  /\ Max(0, MaxOf([k \in 1..Len(syms) |-> Severity(syms[k])])) < 8
  /\ \E k \in 1..Len(syms) :
        /\ Get(syms[k], "type", <<>>) = NoneStr
        /\ \A j \in 1..(k - 1) :
              ~Contains(Lower(Get(syms[j], "type", <<>>)), ChestPain)

\* no exception
NoError == ""

\* str(e) of the exception the try block of lines 561-767 raises, in the
\* order the handler reaches the raising lines: 566 (np.mean, in numpy's
\* wording), 570, 756
PredictionError(profile, lifestyle_data, syms) ==
  IF AggregateRaises(syms) THEN "cannot perform reduce with flexible type"
  ELSE IF profile.height = 0 THEN "float division by zero"
  ELSE IF syms # <<>> /\ ChestPainTestRaises(syms)
  THEN "'NoneType' object has no attribute 'lower'"
  ELSE NoError

\* a variant that answers an exception with what was built so far
ErrorResponse_Partial(e) ==
  [status |-> 200, symptomRiskAnalysis |-> None, keyInsights |-> <<>>]

\* line 770: HTTPException(status_code=500, detail=f"Prediction error: {str(e)}"),
\* the detail as the two parts of the f-string
ErrorResponse(e) == [status |-> 500, detail |-> <<"Prediction error: ", e>>]

\* the symptom lists of those requests
RiskSymptomLists ==
  { <<>>,
    <<SymptomEntries[3]>>,
    <<SymptomEntries[6]>>,
    <<SymptomEntries[1], SymptomEntries[2], SymptomEntries[4]>>,
    <<SymptomEntries[1], SymptomEntries[3], SymptomEntries[5],
      SymptomEntries[7], SymptomEntries[8]>>,
    <<NullTypeEntry>>,
    <<NullTypeEntry, SymptomEntries[3]>>,
    <<SymptomEntries[3], NullTypeEntry>>,
    <<NullTypeEntry, SymptomEntries[6]>>,
    <<TextSeverityEntry>>,
    <<SymptomEntries[2], TextSeverityEntry>> }

\* what analyze_symptom_risks returns for each of those lists that reaches
\* its return
SymptomAnalysisTable ==
  [syms \in {l \in RiskSymptomLists :
               ~AggregateRaises(l) /\ (l = <<>> \/ ~ChestPainTestRaises(l))} |->
     analyze_symptom_risks(syms)]

\* lines 753-758
SymptomAnalysisOf(syms) ==
  IF syms # <<>>
  THEN LET symptom_data_ == SymptomAnalysisTable[syms]
       IN  IF symptom_data_ # None THEN symptom_data_ ELSE None
  ELSE None

\* lines 695-767: the response once obesity_risk is built
HealthRiskResponse(obesity_risk, f, syms) ==
  LET risk_score == OverallRiskScore(obesity_risk.riskLevel, f)
  IN  [status |-> 200,
       obesityRisk |-> obesity_risk,
       exerciseRecommendation |-> None,
       menstrualPrediction |-> None,
       symptomRiskAnalysis |-> SymptomAnalysisOf(syms),
       overallRiskScore |-> risk_score,
       keyInsights |-> KeyInsights(obesity_risk, risk_score, f)]

\* the user profiles requests carry; height 0 makes line 570 divide by zero
UserProfiles ==
  [age : {30},
   gender : {<<"m","a","l","e">>, <<"M","a","l","e">>, <<"f","e","m","a","l","e">>},
   weight : {50, 64, 81, 95, 130},
   height : {0, 160, 180},
   activityLevel : {"sedentary"},
   targetWeight : {<<>>}]

\* profiles whose gender is 'male ', 'transmale' or 'other'
OtherGenderProfiles ==
  [age : {30},
   gender : {<<"m","a","l","e"," ">>, <<"t","r","a","n","s","m","a","l","e">>,
             <<"o","t","h","e","r">>},
   weight : {64},
   height : {160},
   activityLevel : {"sedentary"},
   targetWeight : {<<>>}]

\* the fields UserProfile declares without a default, lines 76-80
RequiredProfileFields == {"age", "gender", "weight", "height", "activityLevel"}

\* the required fields a request's userProfile does not carry
MissingFields(body) == RequiredProfileFields \ DOMAIN body

\* profiles that lack weight, height or both
IncompleteProfiles ==
  {[k \in (DOMAIN p) \ drop |-> p[k]] :
     p \in {q \in UserProfiles : q.weight = 64 /\ q.height = 160},
     drop \in {{"weight"}, {"height"}, {"weight", "height"}}}

\* a variant that answers an incomplete request like a complete one
ValidationErrorResponse_Answered(missing) ==
  [status |-> 200, obesityRisk |-> None, detail |-> missing]

\* what FastAPI answers when the body does not validate as the
\* HealthRiskRequest of line 557: 422 with the fields at fault
ValidationErrorResponse(missing) == [status |-> 422, detail |-> missing]

\* the lifestyle data requests carry, besides the symptoms
LifestyleData ==
  [totalWaterMl : {1000, 1500, 2500},
   hydrationLogs : {<<>>},
   moodLogs : {<<>>,
               <<[mood |-> "sad", intensity |-> 2, factors |-> <<"work", "stress">>]>>,
               <<[mood |-> "tired", intensity |-> 3], [mood |-> "calm", intensity |-> 5]>>,
               <<[mood |-> "happy", intensity |-> 8], [mood |-> "calm"]>>},
   exerciseDuration : {<<>>, <<25>>, <<30>>, <<45>>},
   exerciseIntensity : {<<5>>},
   heartRate : {<<>>},
   sleepHours : {<<>>, <<5>>, <<6>>, <<8>>},
   caloriesConsumed : {<<>>}]

\* lifestyle data that report a zero: no sleep, no exercise, heart rate 0,
\* no calories
ZeroReports ==
  [totalWaterMl : {1500},
   hydrationLogs : {<<>>},
   moodLogs : {<<>>},
   exerciseDuration : {<<0>>, <<45>>},
   exerciseIntensity : {<<0>>, <<5>>},
   heartRate : {<<>>, <<0>>},
   sleepHours : {<<0>>, <<8>>},
   caloriesConsumed : {<<>>, <<0>>}]

\* the exact BMI equals one of the thresholds of lines 573-588
OnThreshold(weight, height) ==
  \E t \in {<<37, 2>>, <<25, 1>>, <<27, 1>>, <<30, 1>>, <<35, 1>>, <<40, 1>>} :
     weight * 10000 * t[2] = t[1] * height * height

\* the rounding errors the computed BMI can have: none that a comparison
\* sees unless the exact value is a threshold
RoundingSigns(weight, height) ==
  IF height # 0 /\ OnThreshold(weight, height) THEN {-1, 0, 1} ELSE {0}

\* analyze_symptom_risks is not running
SymptomIdle ==
  /\ pc = "idle"
  /\ idx = 0
  /\ symptom_type = Unset
  /\ detected_symptoms = <<>>
  /\ condition_scores = Unset
  /\ total_severity = 0
  /\ max_severity = 0
  /\ symptom_data = Unset
  /\ symptomRiskAnalysis = Unset

RiskInit ==
  /\ symptoms \in RiskSymptomLists
  /\ SymptomIdle
  /\ user \in UserProfiles \cup OtherGenderProfiles \cup IncompleteProfiles
  /\ lifestyle \in LifestyleData \cup ZeroReports
  /\ obesity_model \in {"TabNetClassifier", "None"}
  /\ fp_round \in IF MissingFields(user) = {}
                  THEN RoundingSigns(user.weight, user.height) ELSE {0}
  /\ response = Unset
  /\ LoadIdle
  /\ FeatureIdle
  /\ ServerIdle

\* predict_health_risk when models.obesity_model is truthy: lines 561-635, 651-767
PredictHealthRiskWithModel ==
  /\ response = Unset
  /\ MissingFields(user) = {}
  /\ PredictionError(user, lifestyle, symptoms) = NoError
  /\ obesity_model # "None"
  /\ LET f == aggregate_lifestyle_data(lifestyle, symptoms)
         bmi == BMI(user.weight, user.height, fp_round)
     IN  response' = HealthRiskResponse(ObesityRiskWithModel(user, bmi, f), f, symptoms)
  /\ UNCHANGED <<symptomVars, user, lifestyle, obesity_model, fp_round, loadVars, featureVars, serverVars>>

\* predict_health_risk when models.obesity_model is None: lines 561-604, 636-767
PredictHealthRiskFallback ==
  /\ response = Unset
  /\ MissingFields(user) = {}
  /\ PredictionError(user, lifestyle, symptoms) = NoError
  /\ obesity_model = "None"
  /\ LET f == aggregate_lifestyle_data(lifestyle, symptoms)
         bmi == BMI(user.weight, user.height, fp_round)
     IN  response' = HealthRiskResponse(ObesityRiskFallback(user, bmi, f), f, symptoms)
  /\ UNCHANGED <<symptomVars, user, lifestyle, obesity_model, fp_round, loadVars, featureVars, serverVars>>

\* predict_health_risk when a line of the try block raises: lines 769-770
PredictHealthRiskError ==
  /\ response = Unset
  /\ MissingFields(user) = {}
  /\ PredictionError(user, lifestyle, symptoms) # NoError
  /\ response' = ErrorResponse(PredictionError(user, lifestyle, symptoms))
  /\ UNCHANGED <<symptomVars, user, lifestyle, obesity_model, fp_round, loadVars, featureVars, serverVars>>

\* the request body lacks a required field of UserProfile: the handler of
\* line 557 is not entered
RejectRequest ==
  /\ response = Unset
  /\ MissingFields(user) # {}
  /\ response' = ValidationErrorResponse(MissingFields(user))
  /\ UNCHANGED <<symptomVars, user, lifestyle, obesity_model, fp_round, loadVars, featureVars, serverVars>>

RiskNext ==
  \/ PredictHealthRiskWithModel
  \/ PredictHealthRiskFallback
  \/ PredictHealthRiskError
  \/ RejectRequest

RiskSpec == RiskInit /\ [][RiskNext]_vars

(***************************************************************************)
(* Properties of predict_health_risk                                       *)
(***************************************************************************)
\* the class the BMI thresholds 18.5 / 25 / 27 / 30 / 35 / 40 give
ThresholdClass(bmi) ==
  CHOOSE c \in {obesity_classes[k] : k \in 1..Len(obesity_classes)} :
    /\ c = "Insufficient_Weight" <=> Less(bmi, 37, 2)
    /\ c = "Normal_Weight" <=> AtLeast(bmi, 37, 2) /\ Less(bmi, 25, 1)
    /\ c = "Overweight_Level_I" <=> AtLeast(bmi, 25, 1) /\ Less(bmi, 27, 1)
    /\ c = "Overweight_Level_II" <=> AtLeast(bmi, 27, 1) /\ Less(bmi, 30, 1)
    /\ c = "Obesity_Type_I" <=> AtLeast(bmi, 30, 1) /\ Less(bmi, 35, 1)
    /\ c = "Obesity_Type_II" <=> AtLeast(bmi, 35, 1) /\ Less(bmi, 40, 1)
    /\ c = "Obesity_Type_III" <=> AtLeast(bmi, 40, 1)

\* the request validates and no line of the handler's try block raises
NothingRaises ==
  /\ MissingFields(user) = {}
  /\ PredictionError(user, lifestyle, symptoms) = NoError

\* C9: when the obesity model failed to load, POST /predict/health-risk still
\* completes: riskLevel comes from the BMI thresholds 18.5/25/27/30/35/40,
\* confidence is 0.85, and riskLevel, bmi, bmr and recommendations are those
\* returned for the same request when the model is loaded.
C9_FallbackMatchesLoadedModel ==
  (response # Unset /\ obesity_model = "None" /\ NothingRaises) =>
    LET f == aggregate_lifestyle_data(lifestyle, symptoms)
        bmi == BMI(user.weight, user.height, fp_round)
        loaded == ObesityRiskWithModel(user, bmi, f)
    IN  /\ response.status = 200
        /\ response.obesityRisk.riskLevel = ThresholdClass(bmi)
        /\ response.obesityRisk.confidence = 850
        /\ response.obesityRisk.riskLevel = loaded.riskLevel
        /\ response.obesityRisk.bmi = loaded.bmi
        /\ response.obesityRisk.bmr = loaded.bmr
        /\ response.obesityRisk.recommendations = loaded.recommendations

\* a request answered without the model, in a class other than Normal_Weight
\* and with recommendations
C9_Witness ==
  /\ response # Unset
  /\ obesity_model = "None"
  /\ NothingRaises
  /\ response.status = 200
  /\ response.obesityRisk.riskLevel = "Obesity_Type_II"
  /\ response.obesityRisk.confidence = 850
  /\ Len(response.obesityRisk.recommendations) >= 3

\* the request draws every penalty of lines 699-716: 30 for the obesity class,
\* 10 for more than 3 symptoms, 10 for exercise under 20 minutes, 5 for water
\* under 1500 ml, 10 for sleep under 6 hours
AllPenaltiesApply ==
  /\ response.obesityRisk.riskLevel \in {"Obesity_Type_II", "Obesity_Type_III"}
  /\ Len(symptoms) > 3
  /\ OrDefault(lifestyle.exerciseDuration, 0) < 20
  /\ lifestyle.totalWaterMl < 1500
  /\ OrDefault(lifestyle.sleepHours, 7) < 6

\* C11: the overall risk score of every answered request lies in [0, 100],
\* and it is 100 when all penalties apply together (50 + 30 + 10 + 10 + 5 + 10).
C11_OverallRiskScoreWithinBounds ==
  (response # Unset /\ response.status = 200) =>
    /\ response.overallRiskScore >= 0
    /\ response.overallRiskScore <= 100
    /\ AllPenaltiesApply => response.overallRiskScore = 100

\* a request that draws every penalty has been answered with the clamped score
C11_Witness ==
  /\ response # Unset
  /\ response.status = 200
  /\ AllPenaltiesApply
  /\ response.overallRiskScore = 100

\* the rules of generate_recommendations in the order lines 493-532 run them
RuleOrder == <<"symptoms", "bmi", "hydration", "exercise", "mood", "sleep">>

\* the rule of RuleOrder that emits a recommendation
RuleOf(rec) ==
  IF rec.rule \in {"symptoms_urgent", "symptoms_checkup", "symptoms_monitor"}
  THEN "symptoms"
  ELSE IF rec.rule \in {"bmi_underweight", "bmi_obesity", "bmi_overweight"} THEN "bmi"
  ELSE rec.rule

\* position of a rule in RuleOrder
RuleRank(rule) == CHOOSE k \in 1..Len(RuleOrder) : RuleOrder[k] = rule

\* the recommendations of an answered request
Recommendations == response.obesityRisk.recommendations

\* the rules whose recommendation the answer lists
FiredRules == {RuleOf(Recommendations[k]) : k \in 1..Len(Recommendations)}

\* the threshold of each rule on the request's features and BMI
ThresholdHolds(rule) ==
  LET f == aggregate_lifestyle_data(lifestyle, symptoms)
      bmi == BMI(user.weight, user.height, fp_round)
  IN  CASE rule = "symptoms" -> f.symptom_count > 0
        [] rule = "bmi" -> Less(bmi, 37, 2) \/ AtLeast(bmi, 25, 1)
        [] rule = "hydration" -> f.daily_water_ml < 1500
        [] rule = "exercise" -> f.exercise_duration < 30
        [] rule = "mood" -> Less(f.avg_mood_intensity, 4, 1)
        [] rule = "sleep" -> f.sleep_hours < 6

\* C12: generate_recommendations never returns more than 6 strings.
C12_AtMostSixRecommendations ==
  (response # Unset /\ response.status = 200) => Len(Recommendations) <= 6

\* all six rules fired and the answer lists six recommendations
C12_Witness ==
  /\ response # Unset
  /\ response.status = 200
  /\ \A k \in 1..Len(RuleOrder) : ThresholdHolds(RuleOrder[k])
  /\ Len(Recommendations) = 6

\* C13: the recommendations appear in the fixed order symptom urgency, BMI
\* category, hydration, exercise duration, mood, sleep: of any two entries of
\* the returned list, the one from the earlier rule comes first.
C13_RecommendationsInRuleOrder ==
  (response # Unset /\ response.status = 200) =>
    \A i, j \in 1..Len(Recommendations) :
       i < j => RuleRank(RuleOf(Recommendations[i])) < RuleRank(RuleOf(Recommendations[j]))

\* an answer that lists the mood recommendation and, after it, the sleep one,
\* behind a symptom recommendation at the head of the list
C13_Witness ==
  /\ response # Unset
  /\ response.status = 200
  /\ Len(Recommendations) >= 3
  /\ RuleOf(Recommendations[1]) = "symptoms"
  /\ \E i, j \in 1..Len(Recommendations) :
        /\ i < j
        /\ RuleOf(Recommendations[i]) = "mood"
        /\ RuleOf(Recommendations[j]) = "sleep"

\* C14: each rule fires on its own threshold only: the returned list has a
\* rule's message exactly when its threshold holds (water < 1500 ml, exercise
\* < 30 min, mood < 4, sleep < 6 h, BMI < 18.5 or >= 25, symptom count > 0),
\* whatever the other rules do, and each rule contributes one message at most.
C14_RuleFiresIffThresholdHolds ==
  (response # Unset /\ response.status = 200) =>
    /\ \A k \in 1..Len(RuleOrder) :
          RuleOrder[k] \in FiredRules <=> ThresholdHolds(RuleOrder[k])
    /\ Len(Recommendations) = Cardinality(FiredRules)

\* an answer where the BMI rule fired and the hydration rule fired with it,
\* while the exercise and sleep rules, on their thresholds 30 and 6, did not
C14_Witness ==
  /\ response # Unset
  /\ response.status = 200
  /\ OrDefault(lifestyle.exerciseDuration, 0) = 30
  /\ OrDefault(lifestyle.sleepHours, 7) = 6
  /\ FiredRules = {"bmi", "hydration"}

\* C18: when an optional input is absent (sleepHours, caloriesConsumed,
\* heartRate, mood logs) derivation does not raise and the feature that depends
\* on it is left out of the derived mapping, not given a made-up default.
C18_AbsentInputOmitsFeature ==
  (response # Unset /\ NothingRaises) =>
    LET f == aggregate_lifestyle_data(lifestyle, symptoms)
    IN  /\ response.status = 200
        /\ lifestyle.sleepHours = <<>> => "sleep_hours" \notin DOMAIN f
        /\ lifestyle.caloriesConsumed = <<>> => "calories_consumed" \notin DOMAIN f
        /\ lifestyle.heartRate = <<>> => "heart_rate" \notin DOMAIN f
        /\ lifestyle.moodLogs = <<>> => "avg_mood_intensity" \notin DOMAIN f

\* C19: a request that lacks a required input (weight, height) is answered
\* with a client error (4xx), never with a prediction built from missing values.
C19_MissingInputIsClientError ==
  (response # Unset /\ MissingFields(user) # {}) =>
    /\ response.status \in 400..499
    /\ "obesityRisk" \notin DOMAIN response
    /\ "overallRiskScore" \notin DOMAIN response

\* a request without height was answered
C19_Witness ==
  /\ response # Unset
  /\ "height" \in MissingFields(user)
  /\ "weight" \notin MissingFields(user)
  /\ response.status = 422

\* C20: an exception raised while predict_health_risk computes a response
\* (division by a zero height, a severity that is text, a null symptom type)
\* ends the request with one service error that carries a descriptive message;
\* nothing of a partially built response is returned.
C20_ExceptionIsOneServiceError ==
  (/\ response # Unset
   /\ MissingFields(user) = {}
   /\ \/ user.height = 0
      \/ \E k \in 1..Len(symptoms) : symptoms[k] = TextSeverityEntry
      \/ symptoms \in {<<NullTypeEntry>>, <<NullTypeEntry, SymptomEntries[3]>>}) =>
    /\ DOMAIN response = {"status", "detail"}
    /\ response.status = 500
    /\ response.detail[1] = "Prediction error: "
    /\ response.detail[2] \in {"float division by zero",
                               "cannot perform reduce with flexible type",
                               "'NoneType' object has no attribute 'lower'"}

\* a request whose only symptom has a null type was answered, its height valid
C20_Witness ==
  /\ response # Unset
  /\ MissingFields(user) = {}
  /\ user.height # 0
  /\ symptoms = <<NullTypeEntry>>
  /\ response.status = 500

(***************************************************************************)
(* The model cache: LightweightMLModels (lightweight_models.py).           *)
(*                                                                         *)
(* Threads call LightweightMLModels() and then one of the getters.  The    *)
(* class takes no lock, so a thread switch can fall between any two        *)
(* attribute reads or writes; every action below is one such read or       *)
(* write, or a stretch of code that touches only the thread's own locals.  *)
(* An instance is a record of its attributes, <<"unset">> for an attribute *)
(* that was never assigned, <<"None">> for None, <<"model", m>> for a      *)
(* reference to the TabNet object m.                                       *)
(***************************************************************************)
NumThreads == 2

\* calls of LightweightMLModels().get_<g>_model() per thread
MaxCalls == 1

Threads == 1..NumThreads

\* the three archives, in the order _load_models loads them
Archives == <<"obesity", "exercise", "menstrual">>

ArchiveSet == {Archives[k] : k \in 1..Len(Archives)}

AttrUnset == <<"unset">>

AttrNone == <<"None">>

\* object.__new__(cls): an instance without attributes
FreshInstance ==
  [_initialized |-> AttrUnset, obesity |-> AttrUnset, exercise |-> AttrUnset,
   menstrual |-> AttrUnset]

LoadInit ==
  /\ cls_instance = 0
  /\ objects = <<>>
  /\ model_objects = <<>>
  /\ thread = [t \in Threads |-> [pc |-> "start", self |-> 0, getter |-> "obesity",
                                  loading |-> 1, calls |-> 0, result |-> AttrUnset]]
  /\ load_count = [a \in ArchiveSet |-> 0]
  /\ loadable \in {ArchiveSet, ArchiveSet \ {"exercise"}, {}}
  /\ symptoms = <<>>
  /\ SymptomIdle
  /\ RiskIdle
  /\ FeatureIdle
  /\ ServerIdle

Goto(t, label) == thread' = [thread EXCEPT ![t].pc = label]

\* the getter a thread calls: thread 1 get_obesity_model, thread 2
\* get_exercise_model, thread 3 get_menstrual_model, and so on
GetterOf(t) == Archives[((t - 1) % Len(Archives)) + 1]

\* a caller uses the cache: LightweightMLModels().get_<g>_model()
Call(t) ==
  /\ thread[t].pc = "start"
  /\ thread[t].calls < MaxCalls
  /\ thread' = [thread EXCEPT ![t].pc = "new_check", ![t].getter = GetterOf(t),
                              ![t].calls = @ + 1]
  /\ UNCHANGED <<cls_instance, objects, model_objects, load_count, loadable>>
  /\ UNCHANGED <<symptomVars, riskVars, featureVars, serverVars>>

\* __new__, line 18: if cls._instance is None
NewCheck(t) ==
  /\ thread[t].pc = "new_check"
  /\ Goto(t, IF cls_instance = 0 THEN "new_create" ELSE "new_return")
  /\ UNCHANGED <<cls_instance, objects, model_objects, load_count, loadable>>
  /\ UNCHANGED <<symptomVars, riskVars, featureVars, serverVars>>

\* __new__, line 19: cls._instance = super().__new__(cls)
NewCreate(t) ==
  /\ thread[t].pc = "new_create"
  /\ objects' = Append(objects, FreshInstance)
  /\ cls_instance' = Len(objects) + 1
  /\ Goto(t, "new_flag")
  /\ UNCHANGED <<model_objects, load_count, loadable>>
  /\ UNCHANGED <<symptomVars, riskVars, featureVars, serverVars>>

\* __new__, line 20: cls._instance._initialized = False
NewFlag(t) ==
  /\ thread[t].pc = "new_flag"
  /\ objects' = [objects EXCEPT ![cls_instance]._initialized = <<"False">>]
  /\ Goto(t, "new_return")
  /\ UNCHANGED <<cls_instance, model_objects, load_count, loadable>>
  /\ UNCHANGED <<symptomVars, riskVars, featureVars, serverVars>>

\* __new__, line 21: return cls._instance; the getter is entered with it
NewReturn(t) ==
  /\ thread[t].pc = "new_return"
  /\ thread' = [thread EXCEPT ![t].pc = "get_check", ![t].self = cls_instance]
  /\ UNCHANGED <<cls_instance, objects, model_objects, load_count, loadable>>
  /\ UNCHANGED <<symptomVars, riskVars, featureVars, serverVars>>

\* a getter, lines 79-80 (84-85, 89-90): if not self._initialized
GetCheck(t) ==
  /\ thread[t].pc = "get_check"
  /\ LET flag == objects[thread[t].self]._initialized
     IN  Goto(t, IF flag = AttrUnset THEN "raised"
                 ELSE IF flag = <<"False">> THEN "load_check"
                 ELSE "get_return")
  /\ UNCHANGED <<cls_instance, objects, model_objects, load_count, loadable>>
  /\ UNCHANGED <<symptomVars, riskVars, featureVars, serverVars>>

\* _load_models, lines 25-26: if self._initialized: return
LoadCheck(t) ==
  /\ thread[t].pc = "load_check"
  /\ IF objects[thread[t].self]._initialized = <<"True">>
     THEN Goto(t, "get_return")
     ELSE thread' = [thread EXCEPT ![t].pc = "load_assign", ![t].loading = 1]
  /\ UNCHANGED <<cls_instance, objects, model_objects, load_count, loadable>>
  /\ UNCHANGED <<symptomVars, riskVars, featureVars, serverVars>>

\* _load_models, lines 33, 49, 62: self.<a>_model = TabNetClassifier()
LoadAssign(t) ==
  /\ thread[t].pc = "load_assign"
  /\ LET a == Archives[thread[t].loading]
     IN  /\ model_objects' = Append(model_objects, [archive |-> a, loads |-> 0])
         /\ objects' = [objects EXCEPT
                          ![thread[t].self][a] = <<"model", Len(model_objects) + 1>>]
  /\ Goto(t, "load_archive")
  /\ UNCHANGED <<cls_instance, load_count, loadable>>
  /\ UNCHANGED <<symptomVars, riskVars, featureVars, serverVars>>

\* what follows an archive's try statement: the next archive, or line 75
AfterArchive(t) ==
  IF thread[t].loading < Len(Archives)
  THEN [thread EXCEPT ![t].pc = "load_assign", ![t].loading = @ + 1]
  ELSE [thread EXCEPT ![t].pc = "load_done"]

\* _load_models, lines 34-46 (50-59, 63-73): self.<a>_model.load_model(path)
\* on the object the attribute refers to now; an exception (the archive does
\* not load, or the attribute is None by now) ends in self.<a>_model = None
LoadArchive(t) ==
  /\ thread[t].pc = "load_archive"
  /\ LET a == Archives[thread[t].loading]
         ref == objects[thread[t].self][a]
     IN  IF ref = AttrNone
         THEN /\ objects' = [objects EXCEPT ![thread[t].self][a] = AttrNone]
              /\ UNCHANGED <<model_objects, load_count>>
         ELSE /\ load_count' = [load_count EXCEPT ![a] = @ + 1]
              /\ IF a \in loadable
                 THEN /\ model_objects' = [model_objects EXCEPT ![ref[2]].loads = @ + 1]
                      /\ UNCHANGED objects
                 ELSE /\ objects' = [objects EXCEPT ![thread[t].self][a] = AttrNone]
                      /\ UNCHANGED model_objects
  /\ thread' = AfterArchive(t)
  /\ UNCHANGED <<cls_instance, loadable>>
  /\ UNCHANGED <<symptomVars, riskVars, featureVars, serverVars>>

\* _load_models, line 75: self._initialized = True
LoadDone(t) ==
  /\ thread[t].pc = "load_done"
  /\ objects' = [objects EXCEPT ![thread[t].self]._initialized = <<"True">>]
  /\ Goto(t, "get_return")
  /\ UNCHANGED <<cls_instance, model_objects, load_count, loadable>>
  /\ UNCHANGED <<symptomVars, riskVars, featureVars, serverVars>>

\* a getter, line 81 (86, 91): return self.<g>_model
GetReturn(t) ==
  /\ thread[t].pc = "get_return"
  /\ LET value == objects[thread[t].self][thread[t].getter]
     IN  IF value = AttrUnset
         THEN Goto(t, "raised")
         ELSE thread' = [thread EXCEPT ![t].pc = "start", ![t].result = value]
  /\ UNCHANGED <<cls_instance, objects, model_objects, load_count, loadable>>
  /\ UNCHANGED <<symptomVars, riskVars, featureVars, serverVars>>

LoadNext ==
  \E t \in Threads :
     \/ Call(t)
     \/ NewCheck(t)
     \/ NewCreate(t)
     \/ NewFlag(t)
     \/ NewReturn(t)
     \/ GetCheck(t)
     \/ LoadCheck(t)
     \/ LoadAssign(t)
     \/ LoadArchive(t)
     \/ LoadDone(t)
     \/ GetReturn(t)

LoadSpec == LoadInit /\ [][LoadNext]_vars

(***************************************************************************)
(* Properties of the model cache                                           *)
(***************************************************************************)
\* C10: under any interleaving of concurrent first calls to the getters /
\* _load_models each archive is loaded at most once per process, once
\* _initialized is true no model attribute of the singleton is assigned again,
\* and every construction returns the same instance.
C10_LoadedOnceNeverReassigned ==
  /\ [](\A a \in ArchiveSet : load_count[a] <= 1)
  /\ [][\A o \in 1..Len(objects) :
          objects[o]._initialized = <<"True">> =>
            \A a \in ArchiveSet : objects'[o][a] = objects[o][a]]_vars
  /\ [](\A t, u \in Threads :
          (thread[t].self # 0 /\ thread[u].self # 0) => thread[t].self = thread[u].self)

(***************************************************************************)
(* Feature derivation: ObesityFeatureEngineer.engineer_features in its     *)
(* three copies (advanced_feature_engineering.py, backend/fastapi_server.py *)
(* and train_tabnet_only.py), the BMI preparation of train_obesity_enriched *)
(* and the derivation ObesityPredictor.predict (use_models.py) does itself. *)
(*                                                                         *)
(* A dataframe is the sequence of its columns in insertion order; a column *)
(* is its name (a sequence of characters, because the code selects columns *)
(* by substrings of their lowercased names), its dtype and its values, one *)
(* per row.  A number is an exact fraction [num, den] in lowest terms, NaN *)
(* is the fraction with den = 0; text is a sequence of characters.         *)
(***************************************************************************)
RECURSIVE GCD(_, _)
GCD(a, b) == IF b = 0 THEN a ELSE GCD(b, a % b)

Abs(n) == IF n < 0 THEN -n ELSE n

NaN == [num |-> 0, den |-> 0]

IsNaN(q) == q.den = 0

\* the fraction n/d in lowest terms with a positive denominator, d # 0
Rat(n, d) ==
  LET g == GCD(Abs(n), Abs(d))
      s == IF d < 0 THEN -1 ELSE 1
  IN  [num |-> s * (n \div g), den |-> s * (d \div g)]

Num(n) == [num |-> n, den |-> 1]

\* float arithmetic; NaN propagates
RAdd(p, q) == IF IsNaN(p) \/ IsNaN(q) THEN NaN
              ELSE Rat(p.num * q.den + q.num * p.den, p.den * q.den)

RSub(p, q) == IF IsNaN(p) \/ IsNaN(q) THEN NaN
              ELSE Rat(p.num * q.den - q.num * p.den, p.den * q.den)

RMul(p, q) == IF IsNaN(p) \/ IsNaN(q) THEN NaN
              ELSE Rat(p.num * q.num, p.den * q.den)

\* p / q for q # 0
RDiv(p, q) == IF IsNaN(p) \/ IsNaN(q) THEN NaN
              ELSE Rat(p.num * q.den, p.den * q.num)

\* p < q; every comparison with NaN is False
RLess(p, q) == ~IsNaN(p) /\ ~IsNaN(q) /\ p.num * q.den < q.num * p.den

\* Series.fillna(0) on one value
FillNa0(q) == IF IsNaN(q) THEN Num(0) ELSE q

\* sum of a sequence of numbers, NaN skipped (Series.sum, DataFrame.sum)
RECURSIVE RSumSkipNa(_)
RSumSkipNa(seq) ==
  IF seq = <<>> THEN Num(0)
  ELSE RAdd(FillNa0(Head(seq)), RSumSkipNa(Tail(seq)))

\* Series.mean(): NaN skipped; NaN when nothing is left
RMean(seq) ==
  LET present == {k \in 1..Len(seq) : ~IsNaN(seq[k])}
  IN  IF present = {} THEN NaN
      ELSE RDiv(RSumSkipNa(seq), Num(Cardinality(present)))

\* a missing value of an object column
NaNText == <<"NaN">>

\* Series.str.lower().str.contains(word, na=False) on one value
TextContains(text, word) == text # NaNText /\ Contains(Lower(text), word)

\* column names
Col_BMI == <<"B","M","I">>

Col_Height == <<"H","e","i","g","h","t">>

Col_Weight == <<"W","e","i","g","h","t">>

Col_Age == <<"A","g","e">>

Col_Gender == <<"G","e","n","d","e","r">>

Col_BMR == <<"B","M","R">>

Col_FAF == <<"F","A","F">>

Col_PhysActive == <<"P","h","y","s","A","c","t","i","v","e">>

Col_SleepHrsNight == <<"S","l","e","e","p","H","r","s","N","i","g","h","t">>

Col_Fruit == <<"F","r","u","i","t">>

Col_Diet_Quality_Score == <<"D","i","e","t","_","Q","u","a","l","i","t","y","_","S","c","o","r","e">>

Col_Activity_Score == <<"A","c","t","i","v","i","t","y","_","S","c","o","r","e">>

Col_Sleep_Score == <<"S","l","e","e","p","_","S","c","o","r","e">>

Col_Age_Bucket == <<"A","g","e","_","B","u","c","k","e","t">>

Col_Age_Bucket_Encoded == <<"A","g","e","_","B","u","c","k","e","t","_","E","n","c","o","d","e","d">>

Col_Health_Risk_Score == <<"H","e","a","l","t","h","_","R","i","s","k","_","S","c","o","r","e">>

Col_Lifestyle_Score == <<"L","i","f","e","s","t","y","l","e","_","S","c","o","r","e">>

Col_Education_Level == <<"E","d","u","c","a","t","i","o","n","_","L","e","v","e","l">>

Col_Income_Numeric == <<"I","n","c","o","m","e","_","N","u","m","e","r","i","c">>

Col_Diabetes == <<"D","i","a","b","e","t","e","s">>

Col_Smoke100 == <<"S","m","o","k","e","1","0","0">>

Col_BPSysAve == <<"B","P","S","y","s","A","v","e">>

Col_TotChol == <<"T","o","t","C","h","o","l">>

Col_Alcohol12PlusYr == <<"A","l","c","o","h","o","l","1","2","P","l","u","s","Y","r">>

Col_Education == <<"E","d","u","c","a","t","i","o","n">>

Col_HHIncome == <<"H","H","I","n","c","o","m","e">>

Col_Weight_kg == <<"W","e","i","g","h","t","_","k","g">>

Col_Height_m == <<"H","e","i","g","h","t","_","m">>

Col_BMI_Category == <<"B","M","I","_","C","a","t","e","g","o","r","y">>

\* the words the code looks for in names and values
Word_female == <<"f","e","m","a","l","e">>

Word_male == <<"m","a","l","e">>

Word_yes == <<"y","e","s">>

\* line 77 of advanced_feature_engineering.py
diet_words == <<<<"f","o","o","d">>, <<"v","e","g">>, <<"f","r","u","i","t">>, <<"w","a","t","e","r">>, <<"m","e","a","l">>, <<"e","a","t">>>>

\* line 83 of advanced_feature_engineering.py
activity_words == <<<<"p","h","y","s","a","c","t","i","v","e">>, <<"e","x","e","r","c","i","s","e">>, <<"a","c","t","i","v","i","t","y">>, <<"s","p","o","r","t">>, <<"w","a","l","k">>>>

\* line 187 of fastapi_server.py, line 66 of train_tabnet_only.py
serving_activity_words == <<<<"p","h","y","s","a","c","t","i","v","e">>, <<"f","a","f">>, <<"a","c","t","i","v","i","t","y">>>>

\* line 96 of advanced_feature_engineering.py
sleep_words == <<<<"s","l","e","e","p">>>>
\* 'name' in df.columns
HasColumn(frame, name) == \E k \in 1..Len(frame) : frame[k].name = name

\* df[name]
Column(frame, name) == frame[CHOOSE k \in 1..Len(frame) : frame[k].name = name]

\* df[name] as the sequence of its values, one per row
Values(frame, name) == Column(frame, name).values

\* len(df)
NumRows(frame) == IF frame = <<>> THEN 0 ELSE Len(frame[1].values)

\* df[name] = values: replaces the column of that name where it is, or
\* appends a new column
Assign(frame, name, dtype, values) ==
  LET col == [name |-> name, dtype |-> dtype, values |-> values]
  IN  IF HasColumn(frame, name)
      THEN [k \in 1..Len(frame) |-> IF frame[k].name = name THEN col ELSE frame[k]]
      ELSE Append(frame, col)

\* [c for c in df.columns if any(x in c.lower() for x in words)], as the
\* positions of those columns
ColumnsNamedLike(frame, words) ==
  {k \in 1..Len(frame) :
     \E x \in 1..Len(words) : Contains(Lower(frame[k].name), words[x])}

\* Series.str.lower().str.contains('yes', na=False).astype(int) on one value
YesFlag(text) == IF TextContains(text, Word_yes) THEN 1 ELSE 0

\* line 59 / 174 / 51: df['BMI'] = df['Weight'] / (df['Height'] ** 2)
DeriveBMI(frame) ==
  IF ~HasColumn(frame, Col_BMI) /\ HasColumn(frame, Col_Height)
     /\ HasColumn(frame, Col_Weight)
  THEN Assign(frame, Col_BMI, "number",
         [r \in 1..NumRows(frame) |->
            RDiv(Values(frame, Col_Weight)[r],
                 RMul(Values(frame, Col_Height)[r], Values(frame, Col_Height)[r]))])
  ELSE frame

\* line 65 / 178 / 56: x * 100 if x < 3 else x
HeightCm(x) == IF RLess(x, Num(3)) THEN RMul(x, Num(100)) ELSE x

\* line 66 / 57: df['Weight'] if df['Weight'].mean() < 200 else df['Weight'] / 2.205;
\* fastapi_server.py line 179 takes df['Weight'] as it is
WeightKg(frame, pounds_heuristic) ==
  LET weights == Values(frame, Col_Weight)
  IN  IF ~pounds_heuristic \/ RLess(RMean(weights), Num(200)) THEN weights
      ELSE [r \in 1..Len(weights) |-> RDiv(weights[r], Rat(2205, 1000))]

\* lines 70-73 / 181-184 / 59-62 on one row
GenderAdjustedBMR(base, gender) ==
  LET female == TextContains(gender, Word_female)
      male == TextContains(gender, Word_male)
      after_female == IF female THEN RSub(base, Num(161)) ELSE base
  IN  IF male /\ ~female THEN RAdd(after_female, Num(5)) ELSE after_female

\* lines 63-74 / 177-184 / 55-63
DeriveBMR(frame, pounds_heuristic) ==
  IF HasColumn(frame, Col_Age) /\ HasColumn(frame, Col_Weight)
     /\ HasColumn(frame, Col_Height) /\ HasColumn(frame, Col_Gender)
  THEN LET weight_kg == WeightKg(frame, pounds_heuristic)
       IN  Assign(frame, Col_BMR, "number",
             [r \in 1..NumRows(frame) |->
                GenderAdjustedBMR(
                  RSub(RAdd(RMul(Num(10), weight_kg[r]),
                            RMul(Rat(625, 100), HeightCm(Values(frame, Col_Height)[r]))),
                       RMul(Num(5), Values(frame, Col_Age)[r])),
                  Values(frame, Col_Gender)[r])])
  ELSE frame

\* lines 77-80 of advanced_feature_engineering.py: row.sum() when the row
\* taken across diet_cols is numeric, 0 when one of those columns is object
DeriveDietQualityScore(frame) ==
  LET diet_cols == ColumnsNamedLike(frame, diet_words)
  IN  IF diet_cols # {}
      THEN Assign(frame, Col_Diet_Quality_Score, "number",
             [r \in 1..NumRows(frame) |->
                IF \E k \in diet_cols : frame[k].dtype = "object" THEN Num(0)
                ELSE LET cols == CHOOSE s \in [1..Cardinality(diet_cols) -> diet_cols] :
                                   \A i, j \in DOMAIN s : i # j => s[i] # s[j]
                     IN  RSumSkipNa([i \in DOMAIN cols |-> frame[cols[i]].values[r]])])
      ELSE frame

\* lines 83-93 / 187-195 / 66-75: object columns count their 'yes', the
\* others add fillna(0)
DeriveActivityScore(frame, words) ==
  LET activity_cols == ColumnsNamedLike(frame, words)
  IN  IF activity_cols # {}
      THEN Assign(frame, Col_Activity_Score, "number",
             [r \in 1..NumRows(frame) |->
                LET cols == CHOOSE s \in [1..Cardinality(activity_cols) -> activity_cols] :
                              \A i, j \in DOMAIN s : i # j => s[i] # s[j]
                IN  RSumSkipNa([i \in DOMAIN cols |->
                      IF frame[cols[i]].dtype = "object"
                      THEN Num(YesFlag(frame[cols[i]].values[r]))
                      ELSE frame[cols[i]].values[r]])])
      ELSE frame

\* lines 96-99 of advanced_feature_engineering.py: df[sleep_cols].sum(axis=1)
DeriveSleepScore(frame) ==
  LET sleep_cols == ColumnsNamedLike(frame, sleep_words)
  IN  IF sleep_cols # {}
      THEN Assign(frame, Col_Sleep_Score, "number",
             [r \in 1..NumRows(frame) |->
                LET cols == CHOOSE s \in [1..Cardinality(sleep_cols) -> sleep_cols] :
                              \A i, j \in DOMAIN s : i # j => s[i] # s[j]
                IN  RSumSkipNa([i \in DOMAIN cols |-> frame[cols[i]].values[r]])])
      ELSE frame

\* the labels of line 104 and 'nan', in the order LabelEncoder sorts them
age_labels == <<"18-25", "26-35", "36-45", "46-55", "55+", "nan">>

\* pd.cut(age, bins=[0, 25, 35, 45, 55, 100], labels=...) on one value:
\* right-closed bins, NaN outside (0, 100]
AgeBucket(age) ==
  IF IsNaN(age) \/ ~RLess(Num(0), age) \/ RLess(Num(100), age) THEN "nan"
  ELSE IF ~RLess(Num(25), age) THEN "18-25"
  ELSE IF ~RLess(Num(35), age) THEN "26-35"
  ELSE IF ~RLess(Num(45), age) THEN "36-45"
  ELSE IF ~RLess(Num(55), age) THEN "46-55"
  ELSE "55+"

\* LabelEncoder().fit_transform(labels): the rank of each label among the
\* labels that occur
LabelEncode(labels) ==
  LET rank(l) == CHOOSE k \in 1..Len(age_labels) : age_labels[k] = l
      present == {rank(labels[r]) : r \in 1..Len(labels)}
  IN  [r \in 1..Len(labels) |->
         Num(Cardinality({k \in present : k < rank(labels[r])}))]

\* lines 102-106 of advanced_feature_engineering.py
DeriveAgeBucket(frame) ==
  IF HasColumn(frame, Col_Age)
  THEN LET buckets == [r \in 1..NumRows(frame) |-> AgeBucket(Values(frame, Col_Age)[r])]
       IN  Assign(Assign(frame, Col_Age_Bucket, "category", buckets),
                  Col_Age_Bucket_Encoded, "number", LabelEncode(buckets))
  ELSE frame

\* lines 109-121 of advanced_feature_engineering.py
DeriveHealthRiskScore(frame) ==
  LET flag(name, r) == Num(YesFlag(Values(frame, name)[r]))
      above(name, limit, r) ==
        IF RLess(limit, Values(frame, name)[r]) THEN Num(1) ELSE Num(0)
      risk_factors(r) ==
        (IF HasColumn(frame, Col_Diabetes) THEN <<flag(Col_Diabetes, r)>> ELSE <<>>)
        \o (IF HasColumn(frame, Col_Smoke100) THEN <<flag(Col_Smoke100, r)>> ELSE <<>>)
        \o (IF HasColumn(frame, Col_BPSysAve)
            THEN <<above(Col_BPSysAve, Num(140), r)>> ELSE <<>>)
        \o (IF HasColumn(frame, Col_TotChol)
            THEN <<above(Col_TotChol, Rat(52, 10), r)>> ELSE <<>>)
  IN  IF \E name \in {Col_Diabetes, Col_Smoke100, Col_BPSysAve, Col_TotChol} :
           HasColumn(frame, name)
      THEN Assign(frame, Col_Health_Risk_Score, "number",
             [r \in 1..NumRows(frame) |-> RSumSkipNa(risk_factors(r))])
      ELSE frame

\* lines 124-134 of advanced_feature_engineering.py
DeriveLifestyleScore(frame) ==
  LET flag(name, r) == YesFlag(Values(frame, name)[r])
      lifestyle_score(r) ==
        (IF HasColumn(frame, Col_PhysActive) THEN 2 * flag(Col_PhysActive, r) ELSE 0)
        - (IF HasColumn(frame, Col_Alcohol12PlusYr)
           THEN flag(Col_Alcohol12PlusYr, r) ELSE 0)
        - (IF HasColumn(frame, Col_Smoke100) THEN flag(Col_Smoke100, r) ELSE 0)
  IN  IF \E name \in {Col_PhysActive, Col_Alcohol12PlusYr, Col_Smoke100} :
           HasColumn(frame, name)
      THEN Assign(frame, Col_Lifestyle_Score, "number",
             [r \in 1..NumRows(frame) |-> Num(lifestyle_score(r))])
      ELSE frame

\* lines 138-141 of advanced_feature_engineering.py
education_map ==
  <<[key |-> <<"8","t","h"," ","g","r","a","d","e">>, level |-> 1],
    [key |-> <<"9"," ","-"," ","1","1","t","h"," ","g","r","a","d","e">>, level |-> 2],
    [key |-> <<"h","i","g","h"," ","s","c","h","o","o","l">>, level |-> 3],
    [key |-> <<"s","o","m","e"," ","c","o","l","l","e","g","e">>, level |-> 4],
    [key |-> <<"c","o","l","l","e","g","e"," ","g","r","a","d">>, level |-> 5]>>

\* lines 142-144: df['Education'].str.lower().map(education_map).fillna(3)
EducationLevel(text) ==
  IF text # NaNText /\ \E k \in 1..Len(education_map) : education_map[k].key = Lower(text)
  THEN Num(education_map[CHOOSE k \in 1..Len(education_map) :
                           education_map[k].key = Lower(text)].level)
  ELSE Num(3)

Digits == <<"0","1","2","3","4","5","6","7","8","9">>

IsDigit(c) == \E d \in 1..Len(Digits) : Digits[d] = c

DigitValue(c) == (CHOOSE d \in 1..Len(Digits) : Digits[d] = c) - 1

\* the number a string of digits writes
RECURSIVE DecimalValue(_)
DecimalValue(digits) ==
  IF digits = <<>> THEN 0
  ELSE 10 * DecimalValue(SubSeq(digits, 1, Len(digits) - 1))
       + DigitValue(digits[Len(digits)])

\* line 149: Series.str.extract(r'(\d+)')[0].astype(float).fillna(50000) on
\* one value: the first run of digits, 50000 without one
IncomeNumeric(text) ==
  LET at == {k \in 1..Len(text) : IsDigit(text[k])}
  IN  IF text = NaNText \/ at = {} THEN Num(50000)
      ELSE LET first == CHOOSE k \in at : \A j \in at : k <= j
               last == CHOOSE k \in at :
                         /\ \A j \in first..k : j \in at
                         /\ (k + 1) \notin at
           IN  Num(DecimalValue(SubSeq(text, first, last)))

\* lines 137-151 of advanced_feature_engineering.py
DeriveSocioeconomic(frame) ==
  LET with_education ==
        IF HasColumn(frame, Col_Education)
        THEN Assign(frame, Col_Education_Level, "number",
               [r \in 1..NumRows(frame) |-> EducationLevel(Values(frame, Col_Education)[r])])
        ELSE frame
  IN  IF HasColumn(with_education, Col_HHIncome)
      THEN Assign(with_education, Col_Income_Numeric, "number",
             [r \in 1..NumRows(frame) |->
                IncomeNumeric(Values(with_education, Col_HHIncome)[r])])
      ELSE with_education

\* ObesityFeatureEngineer.engineer_features of advanced_feature_engineering.py,
\* lines 48-158
engineer_features(frame) ==
  DeriveSocioeconomic(
    DeriveLifestyleScore(
      DeriveHealthRiskScore(
        DeriveAgeBucket(
          DeriveSleepScore(
            DeriveActivityScore(
              DeriveDietQualityScore(DeriveBMR(DeriveBMI(frame), TRUE)),
              activity_words))))))

\* ObesityFeatureEngineer.engineer_features of backend/fastapi_server.py,
\* lines 168-197
serving_engineer_features(frame) ==
  DeriveActivityScore(DeriveBMR(DeriveBMI(frame), FALSE), serving_activity_words)

\* ObesityFeatureEngineer.engineer_features of train_tabnet_only.py, lines 44-81
training_engineer_features(frame) ==
  DeriveActivityScore(DeriveBMR(DeriveBMI(frame), TRUE), serving_activity_words)

\* the labels of line 300 of advanced_feature_engineering.py:
\* pd.cut(bmi, bins=[0, 18.5, 25, 30, 100]) on one value
BMICategory(bmi) ==
  IF IsNaN(bmi) \/ ~RLess(Num(0), bmi) \/ RLess(Num(100), bmi) THEN "nan"
  ELSE IF ~RLess(Rat(185, 10), bmi) THEN "Underweight"
  ELSE IF ~RLess(Num(25), bmi) THEN "Normal"
  ELSE IF ~RLess(Num(30), bmi) THEN "Overweight"
  ELSE "Obese"

\* train_obesity_enriched, lines 290-300 of advanced_feature_engineering.py:
\* the columns it adds before it calls engineer_features
PrepareBMI(frame) ==
  LET with_bmi ==
        IF ~HasColumn(frame, Col_BMI) /\ HasColumn(frame, Col_Height)
           /\ HasColumn(frame, Col_Weight)
        THEN LET heights == Values(frame, Col_Height)
                 height_m == IF RLess(RMean(heights), Num(3)) THEN heights
                             ELSE [r \in 1..Len(heights) |-> RDiv(heights[r], Num(100))]
                 weight_kg == Values(frame, Col_Weight)
             IN  Assign(Assign(Assign(frame, Col_Weight_kg, "number", weight_kg),
                               Col_Height_m, "number", height_m),
                        Col_BMI, "number",
                        [r \in 1..Len(heights) |->
                           RDiv(weight_kg[r], RMul(height_m[r], height_m[r]))])
        ELSE frame
  IN  IF HasColumn(with_bmi, Col_BMI) /\ ~HasColumn(with_bmi, Col_BMI_Category)
      THEN Assign(with_bmi, Col_BMI_Category, "category",
             [r \in 1..NumRows(with_bmi) |-> BMICategory(Values(with_bmi, Col_BMI)[r])])
      ELSE with_bmi

\* ObesityPredictor.predict, lines 65-77 of use_models.py: the features it
\* derives from user_data itself
predict_features(frame) ==
  LET heights == Values(frame, Col_Height)
      weights == Values(frame, Col_Weight)
      bmr(r) ==
        LET base == RSub(RAdd(RMul(Num(10), weights[r]),
                              RMul(Rat(625, 100), RMul(heights[r], Num(100)))),
                         RMul(Num(5), Values(frame, Col_Age)[r]))
            gender == Lower(Values(frame, Col_Gender)[r])
        IN  IF gender = Word_female THEN RSub(base, Num(161))
            ELSE IF gender = Word_male THEN RAdd(base, Num(5))
            ELSE base
  IN  Assign(Assign(Assign(frame, Col_BMI, "number",
                      [r \in 1..NumRows(frame) |->
                         RDiv(weights[r], RMul(heights[r], heights[r]))]),
                    Col_BMR, "number", [r \in 1..NumRows(frame) |-> bmr(r)]),
             Col_Activity_Score, "number", Values(frame, Col_FAF))

(***************************************************************************)
(* The dataframes derivation runs on                                       *)
(***************************************************************************)
Genders ==
  {<<"M","a","l","e">>,
   <<"F","e","m","a","l","e">>,
   <<"f","e","m","a","l","e"," ">>,
   <<"m","a","l","e">>,
   <<"t","r","a","n","s","m","a","l","e">>,
   <<"O","t","h","e","r">>}

\* one column over the given values
NumberColumn(name, values) == [name |-> name, dtype |-> "number", values |-> values]

TextColumn(name, values) == [name |-> name, dtype |-> "object", values |-> values]

\* single rows in the columns of the obesity dataset: heights in metres and
\* in centimetres, weights in kilograms and in pounds
ObesityFrames ==
  { << TextColumn(Col_Gender, <<g>>), NumberColumn(Col_Age, <<a>>),
       NumberColumn(Col_Height, <<h>>), NumberColumn(Col_Weight, <<w>>),
       NumberColumn(Col_FAF, <<faf>>) >> :
      g \in Genders, a \in {Num(30), Num(60)}, h \in {Rat(175, 100), Num(175)},
      w \in {Num(70), Num(220)}, faf \in {Num(0), Num(2), NaN} }

\* frames of two rows, of frames without some of the columns, and a frame
\* in the columns of the NHANES survey data
OtherFrames ==
  { << TextColumn(Col_Gender, <<<<"M","a","l","e">>, <<"F","e","m","a","l","e">>>>),
       NumberColumn(Col_Age, <<Num(24), Num(50)>>),
       NumberColumn(Col_Height, <<Rat(175, 100), Num(160)>>),
       NumberColumn(Col_Weight, <<Num(70), Num(60)>>),
       NumberColumn(Col_FAF, <<Num(1), Num(3)>>) >>,
    << TextColumn(Col_Gender, <<<<"F","e","m","a","l","e">>, NaNText>>),
       NumberColumn(Col_Age, <<Num(40), Num(70)>>),
       NumberColumn(Col_Height, <<Num(165), Num(180)>>),
       NumberColumn(Col_Weight, <<Num(150), Num(260)>>),
       TextColumn(Col_PhysActive, <<<<"Y","e","s">>, <<"N","o">>>>) >>,
    << NumberColumn(Col_Age, <<Num(30)>>), NumberColumn(Col_Weight, <<Num(70)>>),
       NumberColumn(Col_FAF, <<Num(2)>>) >>,
    << NumberColumn(Col_Height, <<Num(175)>>), NumberColumn(Col_Weight, <<Num(70)>>) >>,
    << NumberColumn(Col_Age, <<Num(30)>>),
       NumberColumn(Col_SleepHrsNight, <<Num(7)>>),
       NumberColumn(Col_Fruit, <<Num(2)>>) >>,
    << TextColumn(Col_Gender, <<<<"m","a","l","e">>>>), NumberColumn(Col_Age, <<Num(58)>>),
       NumberColumn(Col_Height, <<Num(170)>>), NumberColumn(Col_Weight, <<Num(80)>>),
       NumberColumn(Col_BMI, <<Rat(8000, 289)>>),
       TextColumn(Col_PhysActive, <<<<"Y","e","s">>>>),
       NumberColumn(Col_SleepHrsNight, <<Num(6)>>),
       TextColumn(Col_Diabetes, <<<<"N","o">>>>), TextColumn(Col_Smoke100, <<<<"Y","e","s">>>>),
       NumberColumn(Col_BPSysAve, <<Num(150)>>), NumberColumn(Col_TotChol, <<Rat(52, 10)>>),
       TextColumn(Col_Alcohol12PlusYr, <<<<"Y","e","s">>>>),
       TextColumn(Col_Education, <<<<"C","o","l","l","e","g","e"," ","G","r","a","d">>>>),
       TextColumn(Col_HHIncome, <<<<"2","5","0","0","0","-","3","4","9","9","9">>>>) >> }

InputFrames == ObesityFrames \cup OtherFrames

\* the implementations of feature derivation
Engineers ==
  {"advanced_feature_engineering", "train_obesity_enriched", "fastapi_server",
   "train_tabnet_only", "use_models"}

\* runs of engineer_features on one dataframe
MaxEngineerRuns == 2

\* predict reads Gender, Age, Height, Weight and FAF of its one user_data
PredictFrames ==
  {frame \in InputFrames :
     /\ NumRows(frame) = 1
     /\ \A name \in {Col_Gender, Col_Age, Col_Height, Col_Weight, Col_FAF} :
          HasColumn(frame, name)}

FeatureInit ==
  /\ df \in InputFrames
  /\ engineer \in Engineers
  /\ engineer = "use_models" => df \in PredictFrames
  /\ calls = 0
  /\ df_enriched = <<>>
  /\ symptoms = <<>>
  /\ SymptomIdle
  /\ RiskIdle
  /\ LoadIdle
  /\ ServerIdle

\* what a run leaves in the variables
Ran(result) ==
  /\ df' = result
  /\ calls' = calls + 1
  /\ df_enriched' = IF calls = 0 THEN result ELSE df_enriched
  /\ UNCHANGED <<engineer, symptomVars, riskVars, loadVars, serverVars>>

\* train_obesity_enriched up to line 304: the BMI preparation, then
\* engineer_features
TrainObesityEnriched ==
  /\ engineer = "train_obesity_enriched"
  /\ calls = 0
  /\ Ran(engineer_features(PrepareBMI(df)))

\* engineer_features of advanced_feature_engineering.py, on a raw frame or on
\* one it has enriched before
EngineerFeatures ==
  /\ \/ engineer = "advanced_feature_engineering"
     \/ engineer = "train_obesity_enriched" /\ calls > 0
  /\ calls < MaxEngineerRuns
  /\ Ran(engineer_features(df))

\* engineer_features of backend/fastapi_server.py
ServingEngineerFeatures ==
  /\ engineer = "fastapi_server"
  /\ calls < MaxEngineerRuns
  /\ Ran(serving_engineer_features(df))

\* engineer_features of train_tabnet_only.py (train_obesity, line 280)
TrainingEngineerFeatures ==
  /\ engineer = "train_tabnet_only"
  /\ calls < MaxEngineerRuns
  /\ Ran(training_engineer_features(df))

\* ObesityPredictor.predict of use_models.py
Predict ==
  /\ engineer = "use_models"
  /\ calls = 0
  /\ Ran(predict_features(df))

FeatureNext ==
  \/ TrainObesityEnriched
  \/ EngineerFeatures
  \/ ServingEngineerFeatures
  \/ TrainingEngineerFeatures
  \/ Predict

FeatureSpec == FeatureInit /\ [][FeatureNext]_vars

(***************************************************************************)
(* Properties of feature derivation                                        *)
(***************************************************************************)
\* the columns engineer_features derives
DerivedColumns ==
  {Col_BMI, Col_BMR, Col_Diet_Quality_Score, Col_Activity_Score, Col_Sleep_Score,
   Col_Age_Bucket, Col_Age_Bucket_Encoded, Col_Health_Risk_Score,
   Col_Lifestyle_Score, Col_Education_Level, Col_Income_Numeric}

\* C15: feature derivation is idempotent: a run of engineer_features on a
\* frame it has already enriched leaves every derived column with the value
\* it had after the first run.
C15_EngineerFeaturesIdempotent ==
  (engineer # "use_models" /\ calls >= 2) =>
    \A name \in DerivedColumns :
       HasColumn(df_enriched, name) =>
         /\ HasColumn(df, name)
         /\ Values(df, name) = Values(df_enriched, name)

\* weight in kilograms and height in centimetres of a row, as the
\* implementation at work reads them
RowWeightKg(r) ==
  WeightKg(df, engineer \in {"advanced_feature_engineering", "train_obesity_enriched",
                             "train_tabnet_only"})[r]

RowHeightCm(r) ==
  IF engineer = "use_models" THEN RMul(Values(df, Col_Height)[r], Num(100))
  ELSE HeightCm(Values(df, Col_Height)[r])

\* the adjustment a gender string gets by substring matching
GenderAdjustment(gender) ==
  IF TextContains(gender, Word_female) THEN Num(-161)
  ELSE IF TextContains(gender, Word_male) THEN Num(5)
  ELSE Num(0)

\* C16: BMR is 10*weight_kg + 6.25*height_cm - 5*age, minus 161 when the
\* lowercased gender contains 'female', plus 5 when it contains 'male' but
\* not 'female', unadjusted otherwise; no row gets both adjustments.
C16_BMRGenderBySubstring ==
  (calls >= 1 /\ HasColumn(df, Col_BMR)) =>
    \A r \in 1..NumRows(df) :
       Values(df, Col_BMR)[r] =
         RAdd(RSub(RAdd(RMul(Num(10), RowWeightKg(r)),
                        RMul(Rat(625, 100), RowHeightCm(r))),
                   RMul(Num(5), Values(df, Col_Age)[r])),
              GenderAdjustment(Values(df, Col_Gender)[r]))

\* a height of 3 or more is in centimetres, a smaller one in metres
HeightMetres(h) == IF RLess(h, Num(3)) THEN h ELSE RDiv(h, Num(100))

\* C17: the derived BMI is weight_kg / height_m^2 whether the height comes in
\* metres or in centimetres.
C17_BMIFromMetresOrCentimetres ==
  (calls >= 1 /\ HasColumn(df, Col_BMI) /\ HasColumn(df, Col_Height)
   /\ HasColumn(df, Col_Weight)) =>
    \A r \in 1..NumRows(df) :
       Values(df, Col_BMI)[r] =
         RDiv(Values(df, Col_Weight)[r],
              RMul(HeightMetres(Values(df, Col_Height)[r]),
                   HeightMetres(Values(df, Col_Height)[r])))


(***************************************************************************)
(* The server's model loader: MLModels._load_models and GET /              *)
(* (backend/fastapi_server.py).  The module calls models._load_models()    *)
(* when it is imported; the archives on disk can change at any time.       *)
(***************************************************************************)
\* calls of models._load_models()
MaxLoadCalls == 3

\* the class _load_models instantiates for a model: lines 271, 290, 304
ModelClass(m) == IF m = "exercise_model" THEN "TabNetRegressor" ELSE "TabNetClassifier"

\* a variant that loads again on every call
NeedsLoad_Always(instance) == TRUE

\* lines 265-266: if self._initialized: return
NeedsLoad(instance) == ~instance._initialized

\* what follows the try block of model m
AfterLoad(m) ==
  IF m = "obesity_model" THEN "exercise_model"
  ELSE IF m = "exercise_model" THEN "menstrual_model"
  ELSE "finish"

\* GET /, lines 541-553
root(instance) ==
  [status |-> "healthy",
   service |-> "NovaHealth ML API",
   version |-> "1.0.0",
   models_loaded |->
     [obesity |-> instance.obesity_model # "None",
      exercise |-> instance.exercise_model # "None",
      menstrual |-> instance.menstrual_model # "None"]]

ServerInit ==
  /\ models = NewMLModels
  /\ load_pc = "idle"
  /\ archives \in SUBSET ServerModelSet
  /\ attempts = [m \in ServerModelSet |-> 0]
  /\ outcome = [m \in ServerModelSet |-> "none"]
  /\ load_calls = 0
  /\ health = Unset
  /\ symptoms = <<>>
  /\ SymptomIdle
  /\ RiskIdle
  /\ LoadIdle
  /\ FeatureIdle

\* models._load_models() is called: lines 263-268
CallLoadModels ==
  /\ load_pc = "idle"
  /\ load_calls < MaxLoadCalls
  /\ load_calls' = load_calls + 1
  /\ load_pc' = IF NeedsLoad(models) THEN ServerModels[1] ELSE "idle"
  /\ UNCHANGED <<models, archives, attempts, outcome, health>>
  /\ UNCHANGED <<symptomVars, riskVars, loadVars, featureVars>>

\* one try block of lines 270-317: the model object is created and
\* load_model reads its archive; on an exception the attribute is set to None
LoadModel(m) ==
  /\ load_pc = m
  /\ attempts' = [attempts EXCEPT ![m] = @ + 1]
  /\ IF m \in archives
     THEN /\ models' = [models EXCEPT ![m] = ModelClass(m)]
          /\ outcome' = [outcome EXCEPT ![m] = "loaded"]
     ELSE /\ models' = [models EXCEPT ![m] = "None"]
          /\ outcome' = [outcome EXCEPT ![m] = "failed"]
  /\ load_pc' = AfterLoad(m)
  /\ UNCHANGED <<archives, load_calls, health>>
  /\ UNCHANGED <<symptomVars, riskVars, loadVars, featureVars>>

\* lines 319-335: self._initialized = True
FinishLoad ==
  /\ load_pc = "finish"
  /\ models' = [models EXCEPT !._initialized = TRUE]
  /\ load_pc' = "idle"
  /\ UNCHANGED <<archives, attempts, outcome, load_calls, health>>
  /\ UNCHANGED <<symptomVars, riskVars, loadVars, featureVars>>

\* a client calls GET /; the module has been imported, so _load_models has
\* returned at least once
Root ==
  /\ load_pc = "idle"
  /\ load_calls >= 1
  /\ health' = root(models)
  /\ UNCHANGED <<models, load_pc, archives, attempts, outcome, load_calls>>
  /\ UNCHANGED <<symptomVars, riskVars, loadVars, featureVars>>

\* an archive is put into the model directory or removed from it
ArchiveChanges ==
  /\ \E m \in ServerModelSet :
       archives' = IF m \in archives THEN archives \ {m} ELSE archives \cup {m}
  /\ UNCHANGED <<models, load_pc, attempts, outcome, load_calls, health>>
  /\ UNCHANGED <<symptomVars, riskVars, loadVars, featureVars>>

ServerNext ==
  \/ CallLoadModels
  \/ \E m \in ServerModelSet : LoadModel(m)
  \/ FinishLoad
  \/ Root
  \/ ArchiveChanges

ServerSpec == ServerInit /\ [][ServerNext]_vars

\* the key of GET /'s models_loaded that reports model m
HealthKey(m) ==
  IF m = "obesity_model" THEN "obesity"
  ELSE IF m = "exercise_model" THEN "exercise"
  ELSE "menstrual"

\* C21: the three models load independently and without retry: a failed load
\* sets only that model to None, the other models are still loaded,
\* _initialized is true once _load_models has returned even if every load
\* failed, no later call loads again, and GET / reports true for exactly the
\* models whose load succeeded.
C21_IndependentLoadsNoRetry ==
  /\ \A m \in ServerModelSet :
        /\ attempts[m] <= 1
        /\ outcome[m] = "failed" => models[m] = "None"
        /\ outcome[m] = "loaded" => models[m] = ModelClass(m)
  /\ (load_pc = "idle" /\ load_calls >= 1) =>
        /\ models._initialized
        /\ \A m \in ServerModelSet : attempts[m] = 1
  /\ health # Unset =>
        \A m \in ServerModelSet :
           health.models_loaded[HealthKey(m)] = (outcome[m] = "loaded")

\* the exercise load failed, the two other loads succeeded, _load_models was
\* called again after the exercise archive appeared, and GET / was answered
C21_Witness ==
  /\ load_calls >= 2
  /\ load_pc = "idle"
  /\ outcome = [m \in ServerModelSet |->
                  IF m = "exercise_model" THEN "failed" ELSE "loaded"]
  /\ "exercise_model" \in archives
  /\ health # Unset
  /\ ~health.models_loaded.exercise
  /\ health.models_loaded.menstrual


(***************************************************************************)
(* Exercise features: ExerciseFeatureEngineer.engineer_features            *)
(* (advanced_feature_engineering.py, train_tabnet_only.py and              *)
(* backend/fastapi_server.py) and ExerciseCaloriePredictor.predict         *)
(* (use_models.py).  Of their steps the heart-rate zones and the rolling   *)
(* features are modelled; the other steps read and write other columns.    *)
(* A standard deviation is held as the number under its square root.       *)
(***************************************************************************)
Col_ID == <<"I","D">>

Col_Heart_Rate == <<"H","e","a","r","t"," ","R","a","t","e">>

Col_Calories_Burn == <<"C","a","l","o","r","i","e","s"," ","B","u","r","n">>

Col_HR_Percentage == <<"H","R","_","P","e","r","c","e","n","t","a","g","e">>

Col_HR_Zone == <<"H","R","_","Z","o","n","e">>

Col_HR_Zone_Encoded == <<"H","R","_","Z","o","n","e","_","E","n","c","o","d","e","d">>

Col_HR_Rolling_Mean == <<"H","R","_","R","o","l","l","i","n","g","_","M","e","a","n">>

Col_HR_Rolling_Std == <<"H","R","_","R","o","l","l","i","n","g","_","S","t","d">>

Col_HR_Rolling_Max == <<"H","R","_","R","o","l","l","i","n","g","_","M","a","x">>

Col_Calories_Rolling_Mean ==
  <<"C","a","l","o","r","i","e","s","_","R","o","l","l","i","n","g","_","M","e","a","n">>

Col_Calories_Trend == <<"C","a","l","o","r","i","e","s","_","T","r","e","n","d">>

\* the column names of the inference script's exercise_data
Col_Heart_Rate_Key == <<"H","e","a","r","t","_","R","a","t","e">>

\* the orders df.sort_values('ID') can leave the rows in: ascending by ID, rows
\* of equal ID in any order (the default sort is not stable)
RECURSIVE SortOrders(_, _)
SortOrders(ids, rest) ==
  IF rest = {} THEN {<<>>}
  ELSE LET least == {k \in rest : \A j \in rest : ~RLess(ids[j], ids[k])}
       IN  UNION {{<<k>> \o t : t \in SortOrders(ids, rest \ {k})} : k \in least}

\* the frame with its rows in that order
Reorder(frame, order) ==
  [c \in 1..Len(frame) |->
     [frame[c] EXCEPT !.values = [r \in 1..Len(order) |-> frame[c].values[order[r]]]]]

\* rolling(window=5, ...)
window == 5

\* a variant whose window is centred on the row
RollingWindow_Centred(i, n) ==
  (IF i > 2 THEN i - 2 ELSE 1)..(IF i + 2 < n THEN i + 2 ELSE n)

\* the rows rolling(window=5, min_periods=1) aggregates for row i of n
RollingWindow(i, n) == (IF i > window - 1 THEN i - (window - 1) ELSE 1)..i

\* the values of those rows, in row order
Windowed(values, i) ==
  LET rows == RollingWindow(i, Len(values))
      lo == CHOOSE k \in rows : \A j \in rows : k <= j
  IN  [k \in 1..Cardinality(rows) |-> values[lo + k - 1]]

\* .rolling(window=5, min_periods=1).mean()
RollingMean(values) == [i \in 1..Len(values) |-> RMean(Windowed(values, i))]

\* max of a sequence of numbers, NaN skipped; NaN when nothing is left
RMax(seq) ==
  LET present == {k \in 1..Len(seq) : ~IsNaN(seq[k])}
  IN  IF present = {} THEN NaN
      ELSE seq[CHOOSE k \in present : \A j \in present : ~RLess(seq[k], seq[j])]

\* .rolling(window=5, min_periods=1).max()
RollingMax(values) == [i \in 1..Len(values) |-> RMax(Windowed(values, i))]

\* the sample variance (ddof=1) of a sequence of numbers, NaN skipped; NaN
\* with fewer than two observations
RVar(seq) ==
  LET present == {k \in 1..Len(seq) : ~IsNaN(seq[k])}
      mean == RMean(seq)
      squares == [k \in 1..Len(seq) |->
                    IF IsNaN(seq[k]) THEN NaN
                    ELSE RMul(RSub(seq[k], mean), RSub(seq[k], mean))]
  IN  IF Cardinality(present) < 2 THEN NaN
      ELSE RDiv(RSumSkipNa(squares), Num(Cardinality(present) - 1))

\* a variant without .fillna(0)
RollingStd_NoFill(values) ==
  [i \in 1..Len(values) |-> [radicand |-> RVar(Windowed(values, i))]]

\* .rolling(window=5, min_periods=1).std().fillna(0)
RollingStd(values) ==
  [i \in 1..Len(values) |-> [radicand |-> FillNa0(RVar(Windowed(values, i)))]]

\* step 6 of engineer_features: the rolling features, on the rows in one of
\* the orders the sort can leave them in
DeriveRolling(frame, order) ==
  IF HasColumn(frame, Col_ID)
  THEN LET sorted == Reorder(frame, order)
           hr == Values(sorted, Col_Heart_Rate)
           with_hr ==
             IF HasColumn(sorted, Col_Heart_Rate)
             THEN Assign(Assign(Assign(sorted,
                    Col_HR_Rolling_Mean, "number", RollingMean(hr)),
                    Col_HR_Rolling_Std, "number", RollingStd(hr)),
                    Col_HR_Rolling_Max, "number", RollingMax(hr))
             ELSE sorted
           cal == Values(with_hr, Col_Calories_Burn)
       IN  IF HasColumn(with_hr, Col_Calories_Burn)
           THEN LET with_mean == Assign(with_hr, Col_Calories_Rolling_Mean, "number",
                                        RollingMean(cal))
                IN  Assign(with_mean, Col_Calories_Trend, "number",
                           [r \in 1..Len(cal) |->
                              RSub(cal[r], Values(with_mean, Col_Calories_Rolling_Mean)[r])])
           ELSE with_hr
  ELSE frame


\* labels=['Very Light', 'Light', 'Moderate', 'Hard', 'Maximum']
zone_labels == <<"Very Light", "Light", "Moderate", "Hard", "Maximum">>

\* those labels and 'nan' in the order sorted() puts the strings in
sorted_zone_labels == <<"Hard", "Light", "Maximum", "Moderate", "Very Light", "nan">>

\* (heart rate / (220 - age)) * 100
HRPercentage(hr, age) == RMul(RDiv(hr, RSub(Num(220), age)), Num(100))

\* a variant whose bins are closed on the left
CutBand_LeftClosed(pct) ==
  IF IsNaN(pct) \/ RLess(pct, Num(0)) \/ ~RLess(pct, Num(100)) THEN -1
  ELSE IF RLess(pct, Num(60)) THEN 0
  ELSE IF RLess(pct, Num(70)) THEN 1
  ELSE IF RLess(pct, Num(80)) THEN 2
  ELSE IF RLess(pct, Num(90)) THEN 3
  ELSE 4

\* pd.cut(pct, bins=[0, 60, 70, 80, 90, 100]): the position of the bin
\* (lo, hi] that holds pct, from 0; -1 (a missing value) when none does
CutBand(pct) ==
  IF IsNaN(pct) \/ ~RLess(Num(0), pct) \/ RLess(Num(100), pct) THEN -1
  ELSE IF ~RLess(Num(60), pct) THEN 0
  ELSE IF ~RLess(Num(70), pct) THEN 1
  ELSE IF ~RLess(Num(80), pct) THEN 2
  ELSE IF ~RLess(Num(90), pct) THEN 3
  ELSE 4

\* the HR_Percentage of every row
HRPercentages(frame, hr_name) ==
  [r \in 1..NumRows(frame) |->
     HRPercentage(Values(frame, hr_name)[r], Values(frame, Col_Age)[r])]

\* df['HR_Zone'].astype(str): the label of each row, 'nan' for a missing one
ZoneLabel(pct) == IF CutBand(pct) = -1 THEN "nan" ELSE zone_labels[CutBand(pct) + 1]

\* LabelEncoder().fit_transform on zone labels: the rank of each label among
\* the labels that occur
LabelEncodeZones(labels) ==
  LET rank(l) == CHOOSE k \in 1..Len(sorted_zone_labels) : sorted_zone_labels[k] = l
      present == {rank(labels[r]) : r \in 1..Len(labels)}
  IN  [r \in 1..Len(labels) |-> Cardinality({k \in present : k < rank(labels[r])})]

\* step 3 of advanced_feature_engineering.py, lines 197-206
DeriveHRZone(frame) ==
  IF HasColumn(frame, Col_Heart_Rate) /\ HasColumn(frame, Col_Age)
  THEN LET pct == HRPercentages(frame, Col_Heart_Rate)
           labels == [r \in 1..Len(pct) |-> ZoneLabel(pct[r])]
       IN  Assign(Assign(Assign(frame,
             Col_HR_Percentage, "number", pct),
             Col_HR_Zone, "category", labels),
             Col_HR_Zone_Encoded, "number", LabelEncodeZones(labels))
  ELSE frame

\* step 3 of train_tabnet_only.py (lines 109-114) and of
\* backend/fastapi_server.py (lines 214-219): labels=[0, 1, 2, 3, 4], then
\* .cat.codes
DeriveHRZoneCodes(frame) ==
  IF HasColumn(frame, Col_Heart_Rate) /\ HasColumn(frame, Col_Age)
  THEN LET pct == HRPercentages(frame, Col_Heart_Rate)
       IN  Assign(Assign(frame,
             Col_HR_Percentage, "number", pct),
             Col_HR_Zone_Encoded, "number", [r \in 1..Len(pct) |-> CutBand(pct[r])])
  ELSE frame

\* ExerciseFeatureEngineer.engineer_features of advanced_feature_engineering.py
exercise_engineer_features(frame, order) == DeriveRolling(DeriveHRZone(frame), order)

\* ExerciseFeatureEngineer.engineer_features of train_tabnet_only.py
training_exercise_engineer_features(frame, order) ==
  DeriveRolling(DeriveHRZoneCodes(frame), order)

\* ExerciseFeatureEngineer.engineer_features of backend/fastapi_server.py: it
\* has no rolling step
serving_exercise_engineer_features(frame) == DeriveHRZoneCodes(frame)

\* what a call that raised leaves instead of a dataframe
Raised(exception) == <<[name |-> <<>>, dtype |-> "exception", values |-> <<exception>>]>>

\* ExerciseCaloriePredictor.predict of use_models.py, lines 159-179:
\* .astype(int) raises on a missing zone; Calories_Rolling_Mean, which it
\* takes from the MET score, is left out
predict_exercise_features(frame) ==
  LET hr == Values(frame, Col_Heart_Rate_Key)
      pct == HRPercentages(frame, Col_Heart_Rate_Key)
  IN  IF CutBand(pct[1]) = -1
      THEN Raised("ValueError: cannot convert float NaN to integer")
      ELSE Assign(Assign(Assign(Assign(Assign(Assign(frame,
             Col_HR_Percentage, "number", pct),
             Col_HR_Zone_Encoded, "number", <<CutBand(pct[1])>>),
             Col_HR_Rolling_Mean, "number", hr),
             Col_HR_Rolling_Std, "number", <<[radicand |-> Num(0)]>>),
             Col_HR_Rolling_Max, "number", hr),
             Col_Calories_Trend, "number", <<Num(0)>>)


\* exercise sessions as <<ID, heart rate, age, calories>>: heart rates on the
\* band edges of a 30-year-old (114, 133, 190), above the maximum (200) and
\* 0, and two sessions with the same ID
Sessions ==
  << <<1, 120, 30, 300>>, <<2, 95, 30, 250>>, <<3, 133, 30, 410>>,
     <<4, 190, 30, 520>>, <<5, 200, 30, 560>>, <<5, 114, 30, 280>>,
     <<7, 0, 30, 0>>, <<8, 150, 55, 330>> >>

\* the dataframe of the sessions with those positions, in that order
SessionFrame(picks) ==
  << NumberColumn(Col_ID, [r \in 1..Len(picks) |-> Num(Sessions[picks[r]][1])]),
     NumberColumn(Col_Heart_Rate, [r \in 1..Len(picks) |-> Num(Sessions[picks[r]][2])]),
     NumberColumn(Col_Age, [r \in 1..Len(picks) |-> Num(Sessions[picks[r]][3])]),
     NumberColumn(Col_Calories_Burn, [r \in 1..Len(picks) |-> Num(Sessions[picks[r]][4])]) >>

\* the exercise_data of one session, under the inference script's keys
SessionData(pick) ==
  << NumberColumn(Col_Heart_Rate_Key, <<Num(Sessions[pick][2])>>),
     NumberColumn(Col_Age, <<Num(Sessions[pick][3])>>) >>

\* rows of a batch that are explored in every order
MaxBatchAnyOrder == 3

\* batches: every session alone, the first four sessions in every order, and
\* all sessions in some orders
SessionPicks ==
  {p \in UNION {[1..n -> 1..4] : n \in 2..MaxBatchAnyOrder} :
     \A a, b \in DOMAIN p : a # b => p[a] # p[b]}
  \cup {<<k>> : k \in 1..Len(Sessions)}
  \cup {[r \in 1..Len(Sessions) |-> ((r + shift) % Len(Sessions)) + 1] :
          shift \in 0..(Len(Sessions) - 1)}
  \cup {[r \in 1..Len(Sessions) |-> Len(Sessions) + 1 - r],
        <<6, 5, 1, 2, 3, 4, 8, 7>>, <<2, 1, 4, 3, 6, 5, 8, 7>>}

ExerciseFrames == {SessionFrame(p) : p \in SessionPicks}

\* a batch without an ID column
FrameWithoutID == SubSeq(SessionFrame(<<3, 1, 2>>), 2, 4)

ExercisePredictFrames == {SessionData(k) : k \in 1..Len(Sessions)}

ExerciseInit ==
  /\ engineer \in {"advanced_feature_engineering", "train_tabnet_only",
                   "fastapi_server", "use_models"}
  /\ df \in IF engineer = "use_models" THEN ExercisePredictFrames
            ELSE ExerciseFrames \cup {FrameWithoutID}
  /\ calls = 0
  /\ df_enriched = <<>>
  /\ symptoms = <<>>
  /\ SymptomIdle
  /\ RiskIdle
  /\ LoadIdle
  /\ ServerIdle

\* the orders the sort of step 6 can leave the rows of df in
RowOrders(frame) ==
  IF HasColumn(frame, Col_ID)
  THEN SortOrders(Values(frame, Col_ID), 1..NumRows(frame))
  ELSE {[r \in 1..NumRows(frame) |-> r]}

\* engineer_features works on df.copy(): the caller's dataframe stays as it
\* is and the enriched one is returned
Returned(result) ==
  /\ df_enriched' = result
  /\ calls' = calls + 1
  /\ UNCHANGED <<df, engineer, symptomVars, riskVars, loadVars, serverVars>>

\* engineer_features of advanced_feature_engineering.py on a batch
ExerciseEngineerFeatures ==
  /\ engineer = "advanced_feature_engineering"
  /\ calls = 0
  /\ \E order \in RowOrders(df) : Returned(exercise_engineer_features(df, order))

\* engineer_features of train_tabnet_only.py on a batch
TrainingExerciseEngineerFeatures ==
  /\ engineer = "train_tabnet_only"
  /\ calls = 0
  /\ \E order \in RowOrders(df) : Returned(training_exercise_engineer_features(df, order))

\* engineer_features of backend/fastapi_server.py
ServingExerciseEngineerFeatures ==
  /\ engineer = "fastapi_server"
  /\ calls = 0
  /\ Returned(serving_exercise_engineer_features(df))

\* ExerciseCaloriePredictor.predict on one exercise_data
PredictExercise ==
  /\ engineer = "use_models"
  /\ calls = 0
  /\ Returned(predict_exercise_features(df))

ExerciseNext ==
  \/ ExerciseEngineerFeatures
  \/ TrainingExerciseEngineerFeatures
  \/ ServingExerciseEngineerFeatures
  \/ PredictExercise

ExerciseSpec == ExerciseInit /\ [][ExerciseNext]_vars


(***************************************************************************)
(* Properties of the exercise features                                     *)
(***************************************************************************)
\* one of the two batch implementations has returned the enriched batch of a
\* dataframe that has an ID column
BatchRan ==
  /\ calls >= 1
  /\ engineer \in {"advanced_feature_engineering", "train_tabnet_only"}
  /\ HasColumn(df, Col_ID)

\* the sum of values[lo..hi]
RECURSIVE SumRange(_, _, _)
SumRange(values, lo, hi) ==
  IF hi < lo THEN Num(0) ELSE RAdd(SumRange(values, lo, hi - 1), values[hi])

\* C22: in the batch path, for the row at position i of the sequence sorted by
\* ID, HR_Rolling_Mean, HR_Rolling_Max and Calories_Rolling_Mean are computed
\* over exactly the rows max(first, i-4)..i and never over later rows;
\* HR_Rolling_Std is 0 for the first row; HR_Rolling_Max is at least the row's
\* own heart rate; and Calories_Trend = Calories Burn - Calories_Rolling_Mean
\* (0 for the first row).
C22_RollingWindowIsCausal ==
  BatchRan =>
    LET ids == Values(df_enriched, Col_ID)
        hr == Values(df_enriched, Col_Heart_Rate)
        cal == Values(df_enriched, Col_Calories_Burn)
        hr_mean == Values(df_enriched, Col_HR_Rolling_Mean)
        hr_max == Values(df_enriched, Col_HR_Rolling_Max)
        hr_std == Values(df_enriched, Col_HR_Rolling_Std)
        cal_mean == Values(df_enriched, Col_Calories_Rolling_Mean)
        trend == Values(df_enriched, Col_Calories_Trend)
        first(i) == IF i > 4 THEN i - 4 ELSE 1
    IN  /\ \A i \in 1..(Len(ids) - 1) : ~RLess(ids[i + 1], ids[i])
        /\ \A i \in 1..Len(ids) :
             /\ RMul(hr_mean[i], Num(i - first(i) + 1)) = SumRange(hr, first(i), i)
             /\ RMul(cal_mean[i], Num(i - first(i) + 1)) = SumRange(cal, first(i), i)
             /\ \E k \in first(i)..i : hr_max[i] = hr[k]
             /\ \A k \in first(i)..i : ~RLess(hr_max[i], hr[k])
             /\ ~RLess(hr_max[i], hr[i])
             /\ trend[i] = RSub(cal[i], cal_mean[i])
        /\ hr_std[1] = [radicand |-> Num(0)]
        /\ trend[1] = Num(0)

\* a batch of more than five sessions that was not in ID order has been
\* enriched: the maximum of its third row is that of the first three rows, of
\* its seventh row that of rows three to seven
C22_Witness ==
  /\ BatchRan
  /\ NumRows(df) > 5
  /\ \E i \in 1..(NumRows(df) - 1) :
        RLess(Values(df, Col_ID)[i + 1], Values(df, Col_ID)[i])
  /\ Values(df_enriched, Col_HR_Rolling_Max)[3] = Num(133)
  /\ Values(df_enriched, Col_HR_Rolling_Max)[7] = Num(200)

\* the zone the band edges 60/70/80/90/100 give a percentage: 0 for Very
\* Light up to 4 for Maximum
BandByEdges(pct) ==
  IF ~RLess(Num(60), pct) THEN 0
  ELSE IF ~RLess(Num(70), pct) THEN 1
  ELSE IF ~RLess(Num(80), pct) THEN 2
  ELSE IF ~RLess(Num(90), pct) THEN 3
  ELSE 4

\* C23: every row that has heart rate and age is assigned exactly one of the
\* five zones, by its heart-rate percentage heart_rate / (220 - age) * 100
\* with band edges at 60/70/80/90/100, and the offline engineer, the serving
\* engineer and the inference script assign the same zone to the same
\* percentage.
C23_EveryRowHasOneOfFiveZones ==
  calls >= 1 =>
    LET hr_name == IF engineer = "use_models" THEN Col_Heart_Rate_Key
                   ELSE Col_Heart_Rate
    IN  \A r \in 1..NumRows(df) :
          LET pct == HRPercentage(Values(df, hr_name)[r], Values(df, Col_Age)[r])
              \* the row of the result that holds row r of df
              at == {q \in 1..NumRows(df_enriched) :
                       /\ HasColumn(df_enriched, hr_name)
                       /\ Values(df_enriched, hr_name)[q] = Values(df, hr_name)[r]
                       /\ Values(df_enriched, Col_Age)[q] = Values(df, Col_Age)[r]}
          IN  /\ at # {}
              /\ \A q \in at :
                   IF engineer = "advanced_feature_engineering"
                   THEN Values(df_enriched, Col_HR_Zone)[q] = zone_labels[BandByEdges(pct) + 1]
                   ELSE Values(df_enriched, Col_HR_Zone_Encoded)[q] = BandByEdges(pct)

ProfileFrame(profile) ==
  << TextColumn(Col_Gender, <<profile.gender>>),
     NumberColumn(Col_Age, <<Num(profile.age)>>),
     NumberColumn(Col_Height, <<Num(profile.height)>>),
     NumberColumn(Col_Weight, <<Num(profile.weight)>>) >>

\* C25: the BMR that POST /predict/health-risk reports equals the BMR the
\* feature engineer derives for the same weight, height, age and gender, for
\* every gender string ('male', 'Male', 'male ', 'female', strings that
\* contain 'male' such as 'transmale', and strings that contain neither).
C25_HandlerBMREqualsEngineerBMR ==
  (response # Unset /\ response.status = 200) =>
    Rat(response.obesityRisk.bmr, 100)
      = Values(serving_engineer_features(ProfileFrame(user)), Col_BMR)[1]


(***************************************************************************)
(* Further properties of analyze_symptom_risks and predict_health_risk     *)
(***************************************************************************)
\* the risk level of lines 465-479 for a non-empty symptom list
RiskLevelOf(syms) ==
  LET severities == [k \in 1..Len(syms) |-> Severity(syms[k])]
  IN  RiskAndUrgency(syms, Sum(severities), Max(0, MaxOf(severities))).riskLevel

\* Low < Moderate < High < Critical
LevelRank(level) ==
  IF level = "Low" THEN 1
  ELSE IF level = "Moderate" THEN 2
  ELSE IF level = "High" THEN 3
  ELSE 4

\* C26: the risk level is monotone in the symptom list: appending one more
\* symptom to a non-empty list never lowers the risk level in the order
\* Low < Moderate < High < Critical.
C26_RiskLevelMonotone ==
  (symptom_data # Unset /\ symptom_data # None /\ symptoms # <<>>) =>
    \A s \in SymptomEntrySet :
       LevelRank(RiskLevelOf(Append(symptoms, s))) >= LevelRank(symptom_data.riskLevel)


\* C27: within one health-risk response the two symptom assessments agree:
\* when symptomRiskAnalysis.riskLevel is Critical the first entry of
\* obesityRisk.recommendations is the URGENT message, and when it is High the
\* first entry is at least the medical-checkup message.
C27_SymptomAssessmentsAgree ==
  (response # Unset /\ response.status = 200
     /\ response.symptomRiskAnalysis # None) =>
    LET level == response.symptomRiskAnalysis.riskLevel
        recs == response.obesityRisk.recommendations
    IN  /\ level = "Critical" =>
             recs # <<>> /\ recs[1].rule = "symptoms_urgent"
        /\ level = "High" =>
             recs # <<>> /\ recs[1].rule \in {"symptoms_urgent", "symptoms_checkup"}


\* C28: a request that reports sleepHours below 6, sleepHours = 0 included,
\* receives the low-sleep recommendation and the +10 sleep penalty of the
\* overall risk score; a reported exerciseIntensity or heartRate of 0 is
\* carried through as 0, and a reported caloriesConsumed of 0 is not replaced
\* by another value.
C28_ReportedZeroIsKept ==
  (response # Unset /\ response.status = 200) =>
    LET f == aggregate_lifestyle_data(lifestyle, symptoms)
        recs == response.obesityRisk.recommendations
    IN  /\ (lifestyle.sleepHours # <<>> /\ lifestyle.sleepHours[1] < 6) =>
             /\ \E k \in 1..Len(recs) : recs[k].rule = "sleep"
             /\ response.overallRiskScore =
                  OverallRiskScore(response.obesityRisk.riskLevel,
                                   [f EXCEPT !.sleep_hours = lifestyle.sleepHours[1]])
             /\ f.sleep_hours = lifestyle.sleepHours[1]
        /\ lifestyle.exerciseIntensity = <<0>> => f.exercise_intensity = 0
        /\ lifestyle.heartRate = <<0>> => f.heart_rate = 0
        /\ lifestyle.caloriesConsumed = <<0>> => f.calories_consumed = 0


\* C29: the low-exercise judgement is consistent within one response: when the
\* low-exercise recommendation fires or the 'Low exercise' insight is emitted,
\* the overall risk score includes the +10 low-exercise penalty, and when the
\* 'Good exercise routine' insight is emitted neither the recommendation nor
\* the penalty applies.
C29_LowExerciseConsistent ==
  (response # Unset /\ response.status = 200) =>
    LET f == aggregate_lifestyle_data(lifestyle, symptoms)
        recs == response.obesityRisk.recommendations
        insights == response.keyInsights
        recommended == \E k \in 1..Len(recs) : recs[k].rule = "exercise"
        low == \E k \in 1..Len(insights) : insights[k].insight = "low_exercise"
        good == \E k \in 1..Len(insights) : insights[k].insight = "good_exercise"
        with_penalty == OverallRiskScore(response.obesityRisk.riskLevel,
                                         [f EXCEPT !.exercise_duration = 0])
        without_penalty == OverallRiskScore(response.obesityRisk.riskLevel,
                                            [f EXCEPT !.exercise_duration = 60])
    IN  /\ (recommended \/ low) => response.overallRiskScore = with_penalty
        /\ good => (~recommended /\ response.overallRiskScore = without_penalty)


\* C30: when the obesity model is loaded, for every BMI the class at
\* obesity_classes[prediction_idx] is the returned riskLevel, and
\* allProbabilities has exactly the 7 obesity classes, assigns 0.85 to
\* riskLevel and 0.025 to each other class, sums to 1, and confidence equals
\* the probability of riskLevel (probabilities in thousandths).
C30_ProbabilitiesMatchRiskLevel ==
  (response # Unset /\ response.status = 200 /\ obesity_model # "None") =>
    LET risk == response.obesityRisk
        bmi == BMI(user.weight, user.height, fp_round)
        classes == {obesity_classes[k] : k \in 1..Len(obesity_classes)}
    IN  /\ obesity_classes[PredictionIdx(bmi) + 1] = risk.riskLevel
        /\ DOMAIN risk.allProbabilities = classes
        /\ Cardinality(classes) = 7
        /\ \A c \in classes :
             risk.allProbabilities[c] = IF c = risk.riskLevel THEN 850 ELSE 25
        /\ Sum([k \in 1..Len(obesity_classes) |->
                  risk.allProbabilities[obesity_classes[k]]]) = 1000
        /\ risk.confidence = risk.allProbabilities[risk.riskLevel]

\* a request answered with the model loaded, in the class Overweight_Level_II:
\* prediction_idx 6, the fourth class in threshold order
C30_Witness ==
  /\ response # Unset
  /\ response.status = 200
  /\ obesity_model # "None"
  /\ response.obesityRisk.riskLevel = "Overweight_Level_II"
  /\ response.obesityRisk.allProbabilities["Overweight_Level_II"] = 850

=============================================================================
